---- MODULE Spec2Model ----
(***************************************************************************)
(* Bidiagonal real SVD of faer-svd (bidiag_real_svd.rs): the entry point   *)
(* and its routing, the scratch-size helper, the implicit-QR fallback, the *)
(* secular-equation solver and the divide-and-conquer recursion.           *)
(*                                                                         *)
(* The code is generic over E: RealField.  The model instantiates E with a *)
(* binary floating-point type of MantBits significant bits, rounded to     *)
(* nearest, ties to even, with signed infinities and a NaN.  A rounded     *)
(* result of magnitude 2^EMax or more overflows to an infinity, as in      *)
(* f64; the exponent is unbounded below (no underflow, no subnormals).  A  *)
(* value is a pair <<m, e>> standing for m * 2^e with 2^(MantBits-1) <=    *)
(* |m| < 2^MantBits, or <<0, 0>> for zero.                                 *)
(***************************************************************************)
EXTENDS Integers, Sequences, FiniteSets, TLC

\* significant bits of the floating-point type E of the model
MantBits == 12
\* every finite value of E is below 2^EMax in magnitude (f64::MAX_EXP)
EMax == 1024

----------------------------------------------------------------------------
(* Floating-point arithmetic of E                                          *)

Pow2(k) == IF k <= 0 THEN 1 ELSE 2 ^ k

\* the number of bits of x: the least L with x < 2^L
RECURSIVE BitLenFrom(_, _, _)
BitLenFrom(x, lo, hi) ==
    IF lo = hi THEN lo
    ELSE LET mid == (lo + hi) \div 2
         IN IF x < 2 ^ mid THEN BitLenFrom(x, lo, mid) ELSE BitLenFrom(x, mid + 1, hi)
BitLen(x) == IF x < 1 THEN 0 ELSE BitLenFrom(x, 1, 31)

EInf == Pow2(20)
FZero == <<0, 0>>
FInf == <<1, EInf>>
FNegInf == <<-1, EInf>>
FNaN == <<0, EInf>>

IsNaN(x) == x = FNaN
IsInf(x) == x[2] = EInf /\ x[1] # 0
IsFinite(x) == x[2] # EInf

IAbs(i) == IF i < 0 THEN -i ELSE i
Sgn(x) == IF x[1] < 0 THEN -1 ELSE IF x[1] > 0 THEN 1 ELSE 0

\* q * 2^e, or the next value up when the bits r cut off below q, of which
\* half is the midpoint, round up: to nearest, ties to even
FRoundCut(sg, q, r, half, e, sticky) ==
    IF r > half \/ (r = half /\ (sticky \/ q % 2 = 1))
    THEN (IF q + 1 = Pow2(MantBits) THEN <<sg * Pow2(MantBits - 1), e + 1>>
          ELSE <<sg * (q + 1), e>>)
    ELSE <<sg * q, e>>
\* round sg * (m + sticky) * 2^e, m > 0 of L bits, to MantBits bits
FRoundBits(sg, m, e, sticky, L) ==
    IF L <= MantBits
    THEN <<sg * m * Pow2(MantBits - L), e - (MantBits - L)>>
    ELSE FRoundCut(sg, m \div Pow2(L - MantBits), m % Pow2(L - MantBits),
                   Pow2(L - MantBits - 1), e + (L - MantBits), sticky)
\* round sg * (m + sticky) * 2^e, m >= 0 an integer, to MantBits bits; a
\* rounded value of 2^EMax or more is the infinity of its sign
FRound(sg, m, e, sticky) ==
    IF m = 0 THEN FZero
    ELSE LET x == FRoundBits(sg, m, e, sticky, BitLen(m))
         IN IF x[2] + MantBits > EMax THEN <<sg, EInf>> ELSE x
\* round the integer s times 2^e
FRoundInt(s, e) == FRound(IF s < 0 THEN -1 ELSE 1, IAbs(s), e, FALSE)

\* the value of the integer i
FInt(i) == FRoundInt(i, 0)
\* i * 2^k
FDyadOf(f, k) == IF f[1] = 0 THEN FZero ELSE <<f[1], f[2] + k>>
FDyad(i, k) == FDyadOf(FInt(i), k)

FOne == FInt(1)
FTwo == FInt(2)

FNeg(x) == IF IsNaN(x) THEN x ELSE <<-x[1], x[2]>>
FAbs(x) == IF IsNaN(x) THEN x ELSE <<IAbs(x[1]), x[2]>>

\* x < y, false when either is NaN (PartialOrd of the float types)
FLt(x, y) ==
    /\ ~IsNaN(x)
    /\ ~IsNaN(y)
    /\ IF Sgn(x) # Sgn(y) THEN Sgn(x) < Sgn(y)
       ELSE \/ x[1] > 0 /\ x[2] < y[2]
            \/ x[1] < 0 /\ x[2] > y[2]
            \/ x[1] # 0 /\ x[2] = y[2] /\ x[1] < y[1]
FGt(x, y) == FLt(y, x)
FEq(x, y) == ~IsNaN(x) /\ ~IsNaN(y) /\ x = y
FNe(x, y) == ~FEq(x, y)
FLe(x, y) == FLt(x, y) \/ FEq(x, y)
FGe(x, y) == FLe(y, x)

\* hi + lo, the exponent of hi not below that of lo
FAddAligned(hi, lo) ==
    IF hi[2] - lo[2] > MantBits + 2 THEN hi
    ELSE FRoundInt(hi[1] * Pow2(hi[2] - lo[2]) + lo[1], lo[2])
FAddFinite(x, y) ==
    IF x[1] = 0 THEN y
    ELSE IF y[1] = 0 THEN x
    ELSE FAddAligned(IF x[2] >= y[2] THEN x ELSE y, IF x[2] >= y[2] THEN y ELSE x)

FAdd(x, y) ==
    IF IsNaN(x) \/ IsNaN(y) THEN FNaN
    ELSE IF IsInf(x) THEN (IF IsInf(y) /\ y # x THEN FNaN ELSE x)
    ELSE IF IsInf(y) THEN y
    ELSE FAddFinite(x, y)
FSub(x, y) == FAdd(x, FNeg(y))

FMul(x, y) ==
    IF IsNaN(x) \/ IsNaN(y) THEN FNaN
    ELSE IF IsInf(x) \/ IsInf(y)
         THEN (IF x[1] = 0 \/ y[1] = 0 THEN FNaN
               ELSE IF Sgn(x) = Sgn(y) THEN FInf ELSE FNegInf)
    ELSE FRoundInt(x[1] * y[1], x[2] + y[2])

FDiv(x, y) ==
    IF IsNaN(x) \/ IsNaN(y) THEN FNaN
    ELSE IF IsInf(x)
         THEN (IF IsInf(y) THEN FNaN
               ELSE IF (Sgn(x) < 0) = (y[1] < 0) THEN FInf ELSE FNegInf)
    ELSE IF IsInf(y) THEN FZero
    ELSE IF y[1] = 0
         THEN (IF x[1] = 0 THEN FNaN ELSE IF x[1] > 0 THEN FInf ELSE FNegInf)
    ELSE IF x[1] = 0 THEN FZero
    ELSE LET num == IAbs(x[1]) * Pow2(MantBits + 2)
             den == IAbs(y[1])
         IN FRound(IF Sgn(x) * Sgn(y) < 0 THEN -1 ELSE 1,
                   num \div den, x[2] - y[2] - (MantBits + 2), num % den # 0)
FInv(x) == FDiv(FOne, x)

\* floor of the square root of v, found bit by bit from 2^b downwards
RECURSIVE ISqrtFrom(_, _, _)
ISqrtFrom(v, acc, b) ==
    IF b < 0 THEN acc
    ELSE LET t == acc + Pow2(b)
         IN ISqrtFrom(v, IF t * t <= v THEN t ELSE acc, b - 1)

\* the square root of v * 2^e, e even, from r, the floor of the root of v
FSqrtRound(v, r, e) == FRound(1, r, e \div 2, r * r # v)
\* the square root of m * 2^(e - k), e - k even
FSqrtScaled(m, e, k) ==
    FSqrtRound(m * Pow2(k), ISqrtFrom(m * Pow2(k), 0, MantBits + 1), e - k)
FSqrt(x) ==
    IF IsNaN(x) \/ x[1] < 0 THEN FNaN
    ELSE IF IsInf(x) \/ x[1] = 0 THEN x
    ELSE FSqrtScaled(x[1], x[2], IF (x[2] - (MantBits + 3)) % 2 = 0
                                 THEN MantBits + 3 ELSE MantBits + 4)

FMax(x, y) == IF FGt(x, y) THEN x ELSE y
FSquare(x) == FMul(x, x)
\* x with the sign changed when neg holds
FNegIf(neg, x) == IF neg THEN FNeg(x) ELSE x

\* machine epsilon of E: 2^(1 - MantBits)
Epsilon == FDyad(1, 1 - MantBits)

\* width of usize in the model
UsizeBits == 11
UsizeMax == Pow2(UsizeBits) - 1

----------------------------------------------------------------------------
(* Vectors are functions on 0 .. n-1 and matrices functions on pairs        *)
(* <<row, column>>, both indexed from 0 as in the code.                     *)

Vec(n, f(_)) == [i \in 0 .. n - 1 |-> f(i)]
MatOf(nrows, ncols, f(_, _)) ==
    [p \in (0 .. nrows - 1) \X (0 .. ncols - 1) |-> f(p[1], p[2])]
Identity(nrows, ncols) ==
    MatOf(nrows, ncols, LAMBDA i, j : IF i = j THEN FOne ELSE FZero)
\* f itself, with its values computed once: a function written as
\* [x \in S |-> e] is otherwise evaluated anew at each application
Eval(f) == IF f = f THEN f ELSE f
\* the value standing for an absent matrix (Option::None)
None == <<>>

\* JacobiRotation::make_givens(p, q): c and s with c*p - s*q = r, s*p + c*q = 0
MakeGivens(p, q) ==
    LET \* u = sqrt(1 + t^2) with the sign of the larger of p and q
        Hyp(t, neg) == FNegIf(neg, FSqrt(FAdd(FOne, FSquare(t))))
        Tall(t, c) == [c |-> c, s |-> FMul(FNeg(t), c)]
        Wide(t, s) == [c |-> FMul(FNeg(t), s), s |-> s]
    IN IF FEq(q, FZero)
       THEN [c |-> IF FLt(p, FZero) THEN FNeg(FOne) ELSE FOne, s |-> FZero]
       ELSE IF FEq(p, FZero)
       THEN [c |-> FZero, s |-> IF FLt(q, FZero) THEN FOne ELSE FNeg(FOne)]
       ELSE IF FGt(FAbs(p), FAbs(q))
       THEN Tall(FDiv(q, p), FInv(Hyp(FDiv(q, p), FLt(p, FZero))))
       ELSE Wide(FDiv(p, q), FNeg(FInv(Hyp(FDiv(p, q), FLt(q, FZero)))))

\* rot.apply_on_the_right_in_place(col a, col b) on the first nrows rows of m:
\* col a <- c * a - s * b, col b <- s * a + c * b
ApplyOnTheRight(m, rot, a, b, nrows) ==
    IF m = None THEN None
    ELSE [p \in DOMAIN m |->
            IF p[1] >= nrows THEN m[p]
            ELSE IF p[2] = a
            THEN FSub(FMul(rot.c, m[<<p[1], a>>]), FMul(rot.s, m[<<p[1], b>>]))
            ELSE IF p[2] = b
            THEN FAdd(FMul(rot.s, m[<<p[1], a>>]), FMul(rot.c, m[<<p[1], b>>]))
            ELSE m[p]]

\* faer_core::permutation::swap_cols(m, a, b)
SwapCols(m, a, b, nrows) ==
    IF m = None THEN None
    ELSE [p \in DOMAIN m |->
            IF p[1] >= nrows THEN m[p]
            ELSE IF p[2] = a THEN m[<<p[1], b>>]
            ELSE IF p[2] = b THEN m[<<p[1], a>>]
            ELSE m[p]]

\* the largest absolute value of the entries of diag and subdiag
RECURSIVE MaxAbsFrom(_, _, _)
MaxAbsFrom(x, i, acc) ==
    IF i \notin DOMAIN x THEN acc
    ELSE MaxAbsFrom(x, i + 1, IF FGt(FAbs(x[i]), acc) THEN FAbs(x[i]) ELSE acc)
MaxAbs(diag, subdiag) == MaxAbsFrom(subdiag, 0, MaxAbsFrom(diag, 0, FZero))

----------------------------------------------------------------------------
(* bidiag_svd_qr_algorithm_impl.  The state of the loop is a record with    *)
(* d (diag), e (subdiag), u, v and rots, the number of rotations made so    *)
(* far.  scalar_mul_add_e is modelled unfused.                              *)

\* max_iter = 30usize.saturating_mul(n).saturating_mul(n)
QRSweepFactor == 30
SaturatingMul(a, b) == IF a # 0 /\ b > UsizeMax \div a THEN UsizeMax ELSE a * b
QRMaxIter(n) == SaturatingMul(SaturatingMul(QRSweepFactor, n), n)

\* the caller's epsilon as it is
QRCallerEpsilon(epsilon) == epsilon
\* the epsilon of the loop: the caller's epsilon scaled by 128
QREpsilon(epsilon) == FMul(epsilon, FInt(128))

\* the divisor that normalizes diag and subdiag: the maximum is computed
\* and then shadowed by one
QRMaxVal(diag, subdiag) == FOne

\* for i in 0..n-1: subdiag[i] = 0 when it is negligible
QRDeflateSubdiag(n, d, e, epsilon) ==
    [i \in DOMAIN e |->
        IF i < n - 1
           /\ (\/ FLe(FAbs(e[i]), FMul(epsilon, FAdd(FAbs(d[i]), FAbs(d[i + 1]))))
               \/ FLe(FAbs(e[i]), epsilon))
        THEN FZero ELSE e[i]]
\* for i in 0..n: diag[i] = 0 when |diag[i]| <= epsilon
QRSnapDiag(d, epsilon) ==
    [i \in DOMAIN d |-> IF FLe(FAbs(d[i]), epsilon) THEN FZero ELSE d[i]]

\* end: from n downwards while subdiag[end - 2] is at most sqrt(near_zero)
RECURSIVE QRFindEnd(_, _, _)
QRFindEnd(e, end, consider_zero_threshold) ==
    IF end > 1 /\ FLe(FAbs(e[end - 2]), FSqrt(consider_zero_threshold))
    THEN QRFindEnd(e, end - 1, consider_zero_threshold)
    ELSE end
\* a start that is left at end - 1
QRFindStartStays(e, start) == start
\* start: from end - 1 downwards while subdiag[start - 1] is not zero
RECURSIVE QRFindStart(_, _)
QRFindStart(e, start) ==
    IF start > 0 /\ FNe(e[start - 1], FZero)
    THEN QRFindStart(e, start - 1)
    ELSE start

\* the inner loop of the zero-diagonal chase: for j in i+1..end, and its
\* body once rot = make_givens(diag[j], val) is known
RECURSIVE QRChaseZeroInner(_, _, _, _, _, _), QRChaseZeroRotate(_, _, _, _, _, _, _)
\* a body that rotates the columns of u as well
QRChaseZeroRotatesU(st, val, i, j, end, n, rot) ==
    QRChaseZeroInner(
        [st EXCEPT !.d[j] = FAbs(FSub(FMul(rot.c, st.d[j]), FMul(rot.s, val))),
                   !.e[j] = IF j < end - 1 THEN FMul(rot.c, st.e[j]) ELSE @,
                   !.u = ApplyOnTheRight(st.u, rot, i, j, n),
                   !.v = ApplyOnTheRight(st.v, rot, i, j, n),
                   !.rots = st.rots + 1],
        IF j < end - 1 THEN FNeg(FMul(rot.s, st.e[j])) ELSE val,
        i, j + 1, end, n)
QRChaseZeroRotate(st, val, i, j, end, n, rot) ==
    QRChaseZeroInner(
        [st EXCEPT !.d[j] = FAbs(FSub(FMul(rot.c, st.d[j]), FMul(rot.s, val))),
                   !.e[j] = IF j < end - 1 THEN FMul(rot.c, st.e[j]) ELSE @,
                   !.v = ApplyOnTheRight(st.v, rot, i, j, n),
                   !.rots = st.rots + 1],
        IF j < end - 1 THEN FNeg(FMul(rot.s, st.e[j])) ELSE val,
        i, j + 1, end, n)
QRChaseZeroInner(st, val, i, j, end, n) ==
    IF j >= end THEN st
    ELSE QRChaseZeroRotate(st, val, i, j, end, n, MakeGivens(st.d[j], val))

\* for i in start..end-1: chase a zero diag[i]; found tells whether any was
RECURSIVE QRChaseZero(_, _, _, _)
QRChaseZero(acc, i, end, n) ==
    IF i >= end - 1 THEN acc
    ELSE IF FEq(acc.st.d[i], FZero)
    THEN LET val == acc.st.e[i]
             st1 == [acc.st EXCEPT !.e[i] = FZero]
         IN QRChaseZero([st |-> QRChaseZeroInner(st1, val, i, i + 1, end, n),
                         found |-> TRUE], i + 1, end, n)
    ELSE QRChaseZero(acc, i + 1, end, n)

\* the shift: the eigenvalue of the trailing 2x2 block of the tridiagonal
\* matrix that is closer to t11
QRShift(d, e, start, end, consider_zero_threshold) ==
    LET Root(t11, t01_2, dd) ==
            FSub(t11, FDiv(t01_2,
                FAdd(dd, FNegIf(FLt(dd, FZero), FSqrt(FAdd(FSquare(dd), t01_2))))))
        Of(t00, t11, t01_2) ==
            IF FGt(t01_2, consider_zero_threshold)
            THEN Root(t11, t01_2, FMul(FSub(t00, t11), FDyad(1, -1)))
            ELSE t11
    IN Of(IF end - start = 2 THEN FSquare(d[end - 2])
          ELSE FAdd(FSquare(d[end - 2]), FSquare(e[end - 3])),
          FAdd(FSquare(d[end - 1]), FSquare(e[end - 2])),
          FSquare(FMul(d[end - 2], e[end - 2])))

\* the implicit chase: for k in start..end-1.  QRBulgeLeft is the body from
\* the first rotation rot (applied to u) to the second, QRBulgeRight what
\* follows the second rotation rot2 (applied to v), with diag_k, sub_k and
\* dk1 = diag[k + 1] as the first rotation left them
RECURSIVE QRBulgeChase(_, _, _, _, _, _, _)
RECURSIVE QRBulgeLeft(_, _, _, _, _, _, _, _)
RECURSIVE QRBulgeRight(_, _, _, _, _, _, _, _, _, _)
QRBulgeRight(st, y2, z2, sub_k, dk1, rot2, k, start, end, n) ==
    QRBulgeChase(
        [st EXCEPT
           !.d[k] = FAbs(FSub(FMul(rot2.c, y2), FMul(rot2.s, z2))),
           !.d[k + 1] = FAdd(FMul(rot2.s, sub_k), FMul(rot2.c, dk1)),
           !.e[k] = FAdd(FMul(rot2.c, sub_k), FMul(FNeg(rot2.s), dk1)),
           !.e[k + 1] = IF k < end - 2 THEN FMul(rot2.c, @) ELSE @,
           !.v = ApplyOnTheRight(st.v, rot2, k, k + 1, n),
           !.rots = @ + 1],
        IF k < end - 2 THEN FAdd(FMul(rot2.c, sub_k), FMul(FNeg(rot2.s), dk1))
        ELSE y2,
        IF k < end - 2 THEN FMul(FNeg(rot2.s), st.e[k + 1]) ELSE z2,
        k + 1, start, end, n)
QRBulgeLeft(st, y, z, rot, k, start, end, n) ==
    LET Second(st1, y2, z2, sub_k, dk1) ==
            QRBulgeRight(st1, y2, z2, sub_k, dk1, MakeGivens(y2, z2), k, start, end, n)
    IN Second([st EXCEPT
                 !.e = IF k > start
                       THEN [st.e EXCEPT ![k - 1] =
                               FAbs(FSub(FMul(rot.c, y), FMul(rot.s, z)))]
                       ELSE st.e,
                 !.u = ApplyOnTheRight(st.u, rot, k, k + 1, n),
                 !.rots = @ + 1],
              FAdd(FMul(rot.c, st.d[k]), FMul(FNeg(rot.s), st.e[k])),
              FMul(FNeg(rot.s), st.d[k + 1]),
              FAdd(FMul(rot.s, st.d[k]), FMul(rot.c, st.e[k])),
              FMul(rot.c, st.d[k + 1]))
QRBulgeChase(st, y, z, k, start, end, n) ==
    IF k >= end - 1 THEN st
    ELSE QRBulgeLeft(st, y, z, MakeGivens(y, z), k, start, end, n)

\* a loop that is never left by `break`
QRLoopNeverBreaks(end) == FALSE
\* `if end == 1 { break; }`
QRLoopBreaks(end) == end = 1

\* the part of an iteration that follows a chase that found no zero: the
\* shift, then the implicit chase from y = diag[start]^2 - mu and
\* z = diag[start] * subdiag[start]
QRShiftedChase(st, n, start, end, consider_zero_threshold) ==
    QRBulgeChase(st,
                 FSub(FSquare(st.d[start]),
                      QRShift(st.d, st.e, start, end, consider_zero_threshold)),
                 FMul(st.d[start], st.e[start]),
                 start, start, end, n)

\* after the loop: for each negative diag[j], negate it and column j of v
RECURSIVE QRFlipSigns(_, _, _)
QRFlipSigns(st, j, n) ==
    IF j >= n THEN st
    ELSE IF FLt(st.d[j], FZero)
    THEN QRFlipSigns(
            [st EXCEPT !.d[j] = FNeg(st.d[j]),
                       !.v = IF st.v = None THEN None
                             ELSE [p \in DOMAIN st.v |->
                                     IF p[2] = j /\ p[1] < n
                                     THEN FNeg(st.v[p]) ELSE st.v[p]]],
            j + 1, n)
    ELSE QRFlipSigns(st, j + 1, n)

\* the index of the first largest entry of diag[k..n] that exceeds zero, or k
RECURSIVE QRMaxIdx(_, _, _, _, _)
QRMaxIdx(d, kk, n, max, max_idx) ==
    IF kk >= n THEN max_idx
    ELSE IF FGt(d[kk], max) THEN QRMaxIdx(d, kk + 1, n, d[kk], kk)
    ELSE QRMaxIdx(d, kk + 1, n, max, max_idx)

\* a sort that swaps the entries of diag and the columns of u, not those of v
RECURSIVE QRSortLeavesV(_, _, _)
QRSortLeavesV(st, k, n) ==
    IF k >= n THEN st
    ELSE LET max_idx == QRMaxIdx(st.d, k, n, FZero, k)
         IN IF k # max_idx
            THEN QRSortLeavesV([st EXCEPT !.d = [st.d EXCEPT ![k] = st.d[max_idx],
                                                             ![max_idx] = st.d[k]],
                                          !.u = SwapCols(st.u, k, max_idx, n)],
                               k + 1, n)
            ELSE QRSortLeavesV(st, k + 1, n)
\* the selection sort that ends the algorithm: for k in 0..n
RECURSIVE QRSort(_, _, _)
QRSort(st, k, n) ==
    IF k >= n THEN st
    ELSE LET max_idx == QRMaxIdx(st.d, k, n, FZero, k)
         IN IF k # max_idx
            THEN QRSort([st EXCEPT !.d = [st.d EXCEPT ![k] = st.d[max_idx],
                                                      ![max_idx] = st.d[k]],
                                   !.u = SwapCols(st.u, k, max_idx, n),
                                   !.v = SwapCols(st.v, k, max_idx, n)],
                        k + 1, n)
            ELSE QRSort(st, k + 1, n)

\* what follows the loop: signs, sort, and the multiplication by max_val
QRFinish(st, n, max_val) ==
    LET sorted == QRSort(QRFlipSigns(st, 0, n), 0, n)
    IN [sorted EXCEPT !.d = [i \in DOMAIN sorted.d |-> FMul(sorted.d[i], max_val)]]

\* u and v left as the caller passed them
QRStartKeepsUV(diag, subdiag, u, v) ==
    [d |-> diag, e |-> subdiag, u |-> u, v |-> v, rots |-> 0]
\* what precedes the loop: u and v set to the identity, diag and subdiag
\* divided by max_val
QRStart(diag, subdiag, u, v) ==
    LET max_val == QRMaxVal(diag, subdiag)
        ident(m) == IF m = None THEN None
                    ELSE [p \in DOMAIN m |-> IF p[1] = p[2] THEN FOne ELSE FZero]
    IN [d |-> [i \in DOMAIN diag |-> FDiv(diag[i], max_val)],
        e |-> [i \in DOMAIN subdiag |-> FDiv(subdiag[i], max_val)],
        u |-> ident(u), v |-> ident(v), rots |-> 0]

----------------------------------------------------------------------------
(* compute_singular_values_generic: the secular equation and its solver.    *)
(* col0_perm and diag_perm are passed as one record sec with c (col0_perm), *)
(* d (diag_perm) and m (their length).  faer_scale_power_of_two is a        *)
(* multiplication.                                                          *)

FHalf == FDyad(1, -1)
FEight == FInt(8)

\* the number of leading entries of x[0 .. m-1] left when trailing zeros are
\* cut, never less than one: `while actual_n > 1 && x[actual_n - 1] == 0`
RECURSIVE TrimZeros(_, _)
TrimZeros(x, m) ==
    IF m > 1 /\ FEq(x[m - 1], FZero) THEN TrimZeros(x, m - 1) ELSE m

\* acc + x[i]^2 + x[i+1]^2 + ..., added in the order of the indices
RECURSIVE SumSquares(_, _, _)
SumSquares(x, i, acc) ==
    IF i \notin DOMAIN x THEN acc
    ELSE SumSquares(x, i + 1, FAdd(acc, FMul(x[i], x[i])))

\* secular_eq_multi_fast for one of its N arguments
RECURSIVE SecularEqMultiFast(_, _, _, _, _)
SecularEqMultiFast(mu, sec, shift, i, res0) ==
    IF i >= sec.m THEN res0
    ELSE SecularEqMultiFast(mu, sec, shift, i + 1,
            FAdd(res0, FDiv(FMul(sec.c[i], sec.c[i]),
                            FMul(FSub(FSub(sec.d[i], shift), mu),
                                 FAdd(FAdd(sec.d[i], shift), mu)))))

\* the accumulator res0 .. res7 of secular_eq that entry idx of m is added
\* to: chunks of 8, then of 4, then of 2, then the rest
SecularLane(idx, m) ==
    LET full == 8 * (m \div 8)
        r == m % 8
        o == idx - full
        o2 == IF r >= 4 THEN o - 4 ELSE o
    IN IF idx < full THEN idx % 8
       ELSE IF r >= 4 /\ o < 4 THEN o
       ELSE IF r % 4 >= 2 /\ o2 < 2 THEN o2
       ELSE 0

RECURSIVE SecularEqLane(_, _, _, _, _, _)
SecularEqLane(mu, sec, shift, lane, i, res) ==
    IF i >= sec.m THEN res
    ELSE SecularEqLane(mu, sec, shift, lane, i + 1,
            IF SecularLane(i, sec.m) # lane THEN res
            ELSE FAdd(res, FMul(FDiv(sec.c[i], FSub(FSub(sec.d[i], shift), mu)),
                                FDiv(sec.c[i], FAdd(FAdd(sec.d[i], shift), mu)))))

\* secular_eq(mu, col0_perm, diag_perm, shift): the sum of the accumulators
\* res[0] .. res[7], of which res[0] starts from one
SecularEqSum(res) ==
    FAdd(FAdd(FAdd(res[0], res[1]), FAdd(res[2], res[3])),
         FAdd(FAdd(res[4], res[5]), FAdd(res[6], res[7])))
SecularEq(mu, sec, shift) ==
    SecularEqSum([l \in 0 .. 7 |->
        SecularEqLane(mu, sec, shift, l, 0, IF l = 0 THEN FOne ELSE FZero)])

\* the larger of |a| and |b|, as `if a.abs() > b.abs() { a.abs() } else { b.abs() }`
FMaxAbs(a, b) == IF FGt(FAbs(a), FAbs(b)) THEN FAbs(a) ELSE FAbs(b)

\* the `for _ in 0..4` of the secant closure: a point on the other side of
\* the root, as a new right or left candidate
RECURSIVE SecantOpposite(_, _, _, _, _, _, _, _)
\* the test of the point mu_opposite, where the function is f_opposite
SecantOppositePick(st, a, b, f_zero, k, it, sec, shift, mu_opposite, f_opposite) ==
    IF FLt(f_zero, FZero) /\ FGe(f_opposite, FZero)
    THEN [st EXCEPT !.right_candidate = mu_opposite]
    ELSE IF FGt(f_zero, FZero) /\ FLe(f_opposite, FZero)
    THEN [st EXCEPT !.left_candidate = mu_opposite]
    ELSE SecantOpposite(st, a, b, f_zero, FMul(k, FTwo), it + 1, sec, shift)
SecantOppositeAt(st, a, b, f_zero, k, it, sec, shift, mu_opposite) ==
    SecantOppositePick(st, a, b, f_zero, k, it, sec, shift, mu_opposite,
                       SecularEq(mu_opposite, sec, shift))
SecantOpposite(st, a, b, f_zero, k, it, sec, shift) ==
    IF it = 4 THEN st
    ELSE SecantOppositeAt(st, a, b, f_zero, k, it, sec, shift,
                          FDiv(FNeg(a), FAdd(FMul(k, f_zero), b)))

\* the tests that set SecantError::OutOfBounds: mu_cur has left the interval
SecantOutOfBounds(mu_cur, shift, left, right) ==
    \/ /\ FEq(shift, left)
       /\ (FLt(mu_cur, FZero) \/ FGt(mu_cur, FSub(right, left)))
    \/ /\ FEq(shift, right)
       /\ (FLt(mu_cur, FNeg(FSub(right, left))) \/ FGt(mu_cur, FZero))

\* the while loop of the secant closure
RECURSIVE SecantLoop(_, _, _, _, _, _)
\* the assignments of one pass, from the new point mu_zero and f_zero there
SecantUpdate(st, mu_zero, f_zero, worse, shift, left, right) ==
    [st EXCEPT
       !.left_candidate = IF FLt(f_zero, FZero) THEN mu_zero ELSE @,
       !.right_candidate = IF FLt(f_zero, FZero) THEN @ ELSE mu_zero,
       !.mu_prev = st.mu_cur, !.f_prev = st.f_cur,
       !.mu_cur = mu_zero, !.f_cur = f_zero,
       !.use_bisection = SecantOutOfBounds(mu_zero, shift, left, right) \/ worse,
       !.iters = @ + 1]
\* the rest of one pass: f_zero is worse when it is the larger in magnitude
SecantStep(st, a, b, mu_zero, f_zero, worse, sec, shift, left, right, epsilon) ==
    SecantLoop(IF worse
               THEN SecantOpposite(SecantUpdate(st, mu_zero, f_zero, worse, shift,
                                                left, right),
                                   a, b, f_zero, FOne, 0, sec, shift)
               ELSE SecantUpdate(st, mu_zero, f_zero, worse, shift, left, right),
               sec, shift, left, right, epsilon)
SecantEval(st, a, b, mu_zero, f_zero, sec, shift, left, right, epsilon) ==
    SecantStep(st, a, b, mu_zero, f_zero, FGt(FAbs(f_zero), FAbs(st.f_cur)),
               sec, shift, left, right, epsilon)
\* the zero mu_zero of the interpolant a / mu + b
SecantLine(st, a, b, sec, shift, left, right, epsilon) ==
    SecantEval(st, a, b, FNeg(FDiv(a, b)),
               SecularEq(FNeg(FDiv(a, b)), sec, shift),
               sec, shift, left, right, epsilon)
SecantSlope(st, a, sec, shift, left, right, epsilon) ==
    SecantLine(st, a, FSub(st.f_cur, FDiv(a, st.mu_cur)),
               sec, shift, left, right, epsilon)
SecantLoop(st, sec, shift, left, right, epsilon) ==
    IF ~(/\ FNe(st.f_cur, FZero)
         /\ FGt(FAbs(FSub(st.mu_cur, st.mu_prev)),
                FMul(FMul(FEight, epsilon), FMaxAbs(st.mu_cur, st.mu_prev)))
         /\ FGt(FAbs(FSub(st.f_cur, st.f_prev)), epsilon)
         /\ ~st.use_bisection)
    THEN st
    ELSE SecantSlope(st,
            FDiv(FMul(FSub(st.f_cur, st.f_prev), FMul(st.mu_prev, st.mu_cur)),
                 FSub(st.mu_prev, st.mu_cur)),
            sec, shift, left, right, epsilon)

\* the state the closure `secant` starts its loop from
SecantStart(mc, mp, fc, fp, same_sign, sec, shift, left, right, epsilon) ==
    SecantLoop([mu_cur |-> mc, mu_prev |-> mp, f_cur |-> fc, f_prev |-> fp,
                left_candidate |-> IF same_sign THEN None
                                   ELSE IF FLt(mc, mp) THEN mc ELSE mp,
                right_candidate |-> IF same_sign THEN None
                                    ELSE IF FLt(mc, mp) THEN mp ELSE mc,
                use_bisection |-> FALSE, iters |-> 0],
               sec, shift, left, right, epsilon)
\* the closure `secant`: use_bisection, mu_cur and the two candidates; the
\* two points are swapped when |f_prev| < |f_cur|
Secant(mu_cur, mu_prev, f_cur, f_prev, sec, shift, left, right, epsilon) ==
    IF FLt(FAbs(f_prev), FAbs(f_cur))
    THEN SecantStart(mu_prev, mu_cur, f_prev, f_cur, FGt(FMul(f_prev, f_cur), FZero),
                     sec, shift, left, right, epsilon)
    ELSE SecantStart(mu_cur, mu_prev, f_cur, f_prev, FGt(FMul(f_prev, f_cur), FZero),
                     sec, shift, left, right, epsilon)

\* `while right_shifted - left_shifted > 2 * epsilon * max(|left_shifted|,
\* |right_shifted|)`
BisectionContinues(b, epsilon) ==
    FGt(FSub(b.right_shifted, b.left_shifted),
        FMul(FMul(FTwo, epsilon), FMaxAbs(b.left_shifted, b.right_shifted)))

\* `if iteration_count == 4 { break; }`, after the step and before the count
\* is increased
PreBisectionBreaks(iteration_count) == iteration_count = 4

\* "try bisection just to get a good guess for secant": at most five steps
\* on the geometric mean, left at once when the function is exactly zero.
\* evals counts the points at which the function was computed
RECURSIVE PreBisection(_, _, _, _)
\* the step at mid_shifted, where the function is f_mid
PreBisectionAt(b, sec, shift, epsilon, mid_shifted, f_mid) ==
    IF FEq(f_mid, FZero)
    THEN [b EXCEPT !.zero_at = mid_shifted, !.evals = @ + 1]
    ELSE IF PreBisectionBreaks(b.iteration_count)
    THEN (IF FGt(f_mid, FZero)
          THEN [b EXCEPT !.right_shifted = mid_shifted,
                         !.f_prev = b.f_right, !.f_right = f_mid,
                         !.evals = @ + 1]
          ELSE [b EXCEPT !.left_shifted = mid_shifted,
                         !.f_prev = b.f_left, !.f_left = f_mid,
                         !.evals = @ + 1])
    ELSE PreBisection(
            IF FGt(f_mid, FZero)
            THEN [b EXCEPT !.right_shifted = mid_shifted,
                           !.f_prev = b.f_right, !.f_right = f_mid,
                           !.iteration_count = @ + 1, !.evals = @ + 1]
            ELSE [b EXCEPT !.left_shifted = mid_shifted,
                           !.f_prev = b.f_left, !.f_left = f_mid,
                           !.iteration_count = @ + 1, !.evals = @ + 1],
            sec, shift, epsilon)
PreBisectionMid(b, sec, shift, epsilon, mid_shifted) ==
    PreBisectionAt(b, sec, shift, epsilon, mid_shifted,
                   SecularEq(mid_shifted, sec, shift))
\* the geometric mean, or the arithmetic one when the geometric one is zero
PreBisectionMeans(b, sec, shift, epsilon, mid_shifted_arithmetic, mid_shifted_geometric) ==
    PreBisectionMid(b, sec, shift, epsilon,
                    IF FEq(mid_shifted_geometric, FZero)
                    THEN mid_shifted_arithmetic ELSE mid_shifted_geometric)
PreBisection(b, sec, shift, epsilon) ==
    IF ~BisectionContinues(b, epsilon) THEN b
    ELSE PreBisectionMeans(b, sec, shift, epsilon,
            FMul(FAdd(b.left_shifted, b.right_shifted), FHalf),
            FNegIf(FLt(b.left_shifted, FZero),
                   FMul(FSqrt(FAbs(b.left_shifted)), FSqrt(FAbs(b.right_shifted)))))

\* "secant failed, use bisection again": on the arithmetic mean, to the end
RECURSIVE Bisection(_, _, _, _)
BisectionAt(b, sec, shift, epsilon, mid_shifted, f_mid) ==
    IF FEq(f_mid, FZero) THEN b
    ELSE IF FGt(f_mid, FZero)
    THEN Bisection([b EXCEPT !.right_shifted = mid_shifted], sec, shift, epsilon)
    ELSE Bisection([b EXCEPT !.left_shifted = mid_shifted], sec, shift, epsilon)
BisectionMid(b, sec, shift, epsilon, mid_shifted) ==
    BisectionAt(b, sec, shift, epsilon, mid_shifted,
                SecularEq(mid_shifted, sec, shift))
Bisection(b, sec, shift, epsilon) ==
    IF ~BisectionContinues(b, epsilon) THEN b
    ELSE BisectionMid(b, sec, shift, epsilon,
                      FMul(FAdd(b.left_shifted, b.right_shifted), FHalf))

\* the starting points with the factors 2^128 .. 2^1 in place of 2^-128 .. 2^-1
MuValuesGrowing(base) == [i \in 0 .. 7 |-> FMul(base, FDyad(1, Pow2(7 - i)))]

\* the eight starting points right_shifted * 2^-128 .. right_shifted * 2^-1
\* (or of left_shifted), mu_values[i] = base * half(7 - i)
MuValues(base) == [i \in 0 .. 7 |-> FMul(base, FDyad(1, -Pow2(7 - i)))]


\* The body of 'kth_value for the index k gives the value s[k], the shift and
\* mu with s = shift + mu, the interval [left, right] it is looked for in,
\* the exit taken and whether an assert! failed.  Its steps are written last
\* first, each one an operator on the values the code has in scope there.

\* the value written as left + mu_cur, whichever end the shift is
KthDoneFromLeft(left, right, shift, b2, sc, mu_cur) ==
    [s |-> FAdd(left, mu_cur), shift |-> shift, mu |-> mu_cur,
     left |-> left, right |-> right,
     exit |-> IF sc.use_bisection THEN "bisection" ELSE "secant",
     panic |-> FALSE, pre |-> b2]
\* `(s, shift, mu) = (shift + mu_cur, shift, mu_cur)`
KthDone(left, right, shift, b2, sc, mu_cur) ==
    [s |-> FAdd(shift, mu_cur), shift |-> shift, mu |-> mu_cur,
     left |-> left, right |-> right,
     exit |-> IF sc.use_bisection THEN "bisection" ELSE "secant",
     panic |-> FALSE, pre |-> b2]
\* `(left_shifted + right_shifted) * 0.5`
BracketCentre(b) == FMul(FAdd(b.left_shifted, b.right_shifted), FHalf)
\* the bracket b narrowed to the candidates of secant, when both are set and
\* left_candidate < right_candidate
BracketNarrowed(b, sc) ==
    IF /\ sc.left_candidate # None
       /\ sc.right_candidate # None
       /\ FLt(sc.left_candidate, sc.right_candidate)
    THEN [b EXCEPT
            !.left_shifted = IF FGt(sc.left_candidate, @) THEN sc.left_candidate ELSE @,
            !.right_shifted = IF FLt(sc.right_candidate, @) THEN sc.right_candidate ELSE @]
    ELSE b
\* after secant: the last bisection runs when secant gave up
KthRefine(left, right, shift, b2, sc, sec, epsilon) ==
    KthDone(left, right, shift, b2, sc,
            IF sc.use_bisection
            THEN BracketCentre(Bisection(BracketNarrowed(b2, sc), sec, shift, epsilon))
            ELSE sc.mu_cur)
\* secant from the two points args[1], args[2] with the values args[3], args[4]
KthFrom(left, right, shift, b2, args, sec, epsilon) ==
    KthRefine(left, right, shift, b2,
              Secant(args[1], args[2], args[3], args[4], sec, shift, left, right,
                     epsilon),
              sec, epsilon)
\* after the first bisection: the exit on an exact zero, or the two points
\* that secant starts from
KthAfterPre(left, right, shift, b2, sec, epsilon) ==
    IF b2.zero_at # None
    THEN [s |-> FAdd(shift, b2.zero_at), shift |-> shift, mu |-> b2.zero_at,
          left |-> left, right |-> right, exit |-> "exact_zero",
          panic |-> FALSE, pre |-> b2]
    ELSE KthFrom(left, right, shift, b2,
                 IF FEq(b2.left_shifted, FZero)
                 THEN <<FAdd(b2.right_shifted, b2.right_shifted),
                        b2.right_shifted, b2.f_prev, b2.f_right>>
                 ELSE IF FEq(b2.right_shifted, FZero)
                 THEN <<FAdd(b2.left_shifted, b2.left_shifted),
                        b2.left_shifted, b2.f_prev, b2.f_left>>
                 ELSE <<b2.left_shifted, b2.right_shifted, b2.f_left, b2.f_right>>,
                 sec, epsilon)
KthBracketed(left, right, shift, b1, sec, epsilon) ==
    KthAfterPre(left, right, shift, PreBisection(b1, sec, shift, epsilon), sec, epsilon)
\* the bracket after the walk over mu_values: i counts the values of
\* f_values on the side of the pole, the last of which is at index last
\* the bracket left as it was before the walk
WarmBracketKept(at_left, b0, mu_values, f_values, i, last) ==
    [left_shifted |-> b0.left_shifted, f_left |-> b0.f_left,
     right_shifted |-> b0.right_shifted, f_right |-> b0.f_right]
WarmBracket(at_left, b0, mu_values, f_values, i, last) ==
    IF at_left
    THEN [left_shifted |-> IF i > 0 THEN mu_values[last] ELSE b0.left_shifted,
          f_left |-> IF i > 0 THEN f_values[last] ELSE b0.f_left,
          right_shifted |-> IF i < 8 THEN mu_values[i] ELSE b0.right_shifted,
          f_right |-> IF i < 8 THEN f_values[i] ELSE b0.f_right]
    ELSE [right_shifted |-> IF i > 0 THEN mu_values[last] ELSE b0.right_shifted,
          f_right |-> IF i > 0 THEN f_values[last] ELSE b0.f_right,
          left_shifted |-> IF i < 8 THEN mu_values[i] ELSE b0.left_shifted,
          f_left |-> IF i < 8 THEN f_values[i] ELSE b0.f_left]
\* the values the first bisection starts from; b0, mu_values, f_values and
\* the bracket b1 of the walk are kept beside them
WarmStarted(f_mid, at_left, b0, mu_values, f_values, b1) ==
    [left_shifted |-> b1.left_shifted, f_left |-> b1.f_left,
     right_shifted |-> b1.right_shifted, f_right |-> b1.f_right,
     f_prev |-> f_mid, iteration_count |-> 0, zero_at |-> None, evals |-> 0,
     at_left |-> at_left, initial |-> b0, mu_values |-> mu_values,
     f_values |-> f_values, warm |-> b1]
WarmStart(f_mid, at_left, b0, mu_values, f_values, i, last) ==
    WarmStarted(f_mid, at_left, b0, mu_values, f_values,
                WarmBracket(at_left, b0, mu_values, f_values, i, last))
\* the indices h at which f_values[h] is on the side of the pole
WarmHits(at_left, f_values) ==
    {h \in 0 .. 7 : IF at_left THEN FLt(f_values[h], FZero)
                    ELSE FGt(f_values[h], FZero)}
KthScan(left, right, shift, f_mid, at_left, b0, mu_values, f_values, sec, epsilon) ==
    KthBracketed(left, right, shift,
        WarmStart(f_mid, at_left, b0, mu_values, f_values,
                  Cardinality(WarmHits(at_left, f_values)),
                  CHOOSE h \in WarmHits(at_left, f_values) :
                      \A j \in WarmHits(at_left, f_values) : j <= h),
        sec, epsilon)
KthScanAt(left, right, shift, f_mid, at_left, b0, mu_values, sec, epsilon) ==
    KthScan(left, right, shift, f_mid, at_left, b0, mu_values,
            Eval([h \in 0 .. 7 |->
                     SecularEqMultiFast(mu_values[h], sec, shift, 0, FOne)]),
            sec, epsilon)
\* `assert!(PartialOrd::partial_cmp(&f_left, &zero) != Some(Greater))` and the
\* one for f_right, then the starting points
KthChecked(left, right, shift, f_mid, at_left, b0, sec, epsilon) ==
    IF FGt(b0.f_left, FZero) \/ FLt(b0.f_right, FZero)
    THEN [s |-> FZero, shift |-> FZero, mu |-> FZero, left |-> left,
          right |-> right, exit |-> "panic", panic |-> TRUE, pre |-> None]
    ELSE KthScanAt(left, right, shift, f_mid, at_left, b0,
                   Eval(MuValues(IF at_left THEN b0.right_shifted
                                 ELSE b0.left_shifted)),
                   sec, epsilon)
\* the bracket with the value at the pole given the other sign
KthShiftedPoleFlipped(left, right, range, last_k, shift, f_mid, f_max, at_left, sec, epsilon) ==
    KthChecked(left, right, shift, f_mid, at_left,
        IF at_left
        THEN [left_shifted |-> FZero, f_left |-> FInv(FZero),
              right_shifted |-> IF last_k THEN range ELSE FMul(range, FHalf),
              f_right |-> IF last_k THEN f_max ELSE f_mid]
        ELSE [left_shifted |-> FMul(FNeg(range), FHalf), f_left |-> f_mid,
              right_shifted |-> FZero, f_right |-> FNeg(FInv(FZero))],
        sec, epsilon)
\* the bracket in the shifted coordinates, the pole at zero
KthShifted(left, right, range, last_k, shift, f_mid, f_max, at_left, sec, epsilon) ==
    KthChecked(left, right, shift, f_mid, at_left,
        IF at_left
        THEN [left_shifted |-> FZero, f_left |-> FNeg(FInv(FZero)),
              right_shifted |-> IF last_k THEN range ELSE FMul(range, FHalf),
              f_right |-> IF last_k THEN f_max ELSE f_mid]
        ELSE [left_shifted |-> FMul(FNeg(range), FHalf), f_left |-> f_mid,
              right_shifted |-> FZero, f_right |-> FInv(FZero)],
        sec, epsilon)
\* shift, first by the sign of f_mid, then moved to the other end when the
\* function at the middle seen from this end has the wrong sign
KthSelect(left, right, range, last_k, f_mid0, f_max, f_mid_left_shift, f_mid_right_shift, sec, epsilon) ==
    LET shift0 == IF last_k \/ FGt(f_mid0, FZero) THEN left ELSE right
        to_right == ~last_k /\ FEq(shift0, left) /\ FLt(f_mid_left_shift, FZero)
        to_left == ~last_k /\ ~FEq(shift0, left) /\ FGt(f_mid_right_shift, FZero)
        shift == IF to_right THEN right ELSE IF to_left THEN left ELSE shift0
    IN KthShifted(left, right, range, last_k, shift,
                  IF to_right THEN f_mid_right_shift
                  ELSE IF to_left THEN f_mid_left_shift ELSE f_mid0,
                  f_max, FEq(shift, left), sec, epsilon)
\* the function at the middle of [left, right] and at its right end
KthInterval(left, right, range, last_k, sec, epsilon) ==
    KthSelect(left, right, range, last_k,
        SecularEqMultiFast(FAdd(left, FMul(range, FHalf)), sec, FZero, 0, FOne),
        SecularEqMultiFast(IF last_k THEN range ELSE FMul(range, FHalf),
                           sec, left, 0, FOne),
        SecularEqMultiFast(FMul(FHalf, range), sec, left, 0, FOne),
        SecularEqMultiFast(FNeg(FMul(FHalf, range)), sec, right, 0, FOne),
        sec, epsilon)
KthBetween(left, right, last_k, sec, epsilon) ==
    KthInterval(left, right, FSub(right, left), last_k, sec, epsilon)
ComputeSingularValue(k, diag, col0, sec, n, epsilon) ==
    IF FEq(col0[k], FZero) \/ TrimZeros(col0, n) = 1
    THEN [s |-> IF k = 0 THEN col0[0] ELSE diag[k],
          shift |-> IF k = 0 THEN col0[0] ELSE diag[k], mu |-> FZero,
          left |-> IF k = 0 THEN col0[0] ELSE diag[k],
          right |-> IF k = 0 THEN col0[0] ELSE diag[k],
          exit |-> "deflated", panic |-> FALSE, pre |-> None]
    ELSE KthBetween(diag[k],
            IF k = TrimZeros(col0, n) - 1
            THEN FAdd(diag[k], FSqrt(SumSquares(col0, 0, FZero)))
            ELSE diag[CHOOSE l \in k + 1 .. n - 1 :
                         /\ FNe(col0[l], FZero)
                         /\ \A j \in k + 1 .. l - 1 : FEq(col0[j], FZero)],
            k = TrimZeros(col0, n) - 1, sec, epsilon)

\* the indices perm of compute_svd_of_m: those of the nonzero entries of col0
RECURSIVE ActivePerm(_, _, _)
ActivePerm(col0, m, i) ==
    IF i >= m THEN <<>>
    ELSE IF FNe(FAbs(col0[i]), FZero) THEN <<i>> \o ActivePerm(col0, m, i + 1)
    ELSE ActivePerm(col0, m, i + 1)

\* col0_perm and diag_perm as compute_svd_of_m collects them
SecularOf(d, col0, m) ==
    LET perm == ActivePerm(col0, TrimZeros(d, m), 0)
    IN [c |-> [i \in 0 .. Len(perm) - 1 |-> col0[perm[i + 1]]],
        d |-> [i \in 0 .. Len(perm) - 1 |-> d[perm[i + 1]]],
        m |-> Len(perm)]

----------------------------------------------------------------------------
(* bidiag_svd_impl: the divide and conquer step on a problem whose two      *)
(* halves are leaves of order two.  diag, subdiag and col0 are functions on *)
(* 0 .. n-1; perm, the rotations and their indices are functions on         *)
(* 0 .. n-1 as the arrays of the code are.                                  *)

\* rot.apply_on_the_left_in_place(row a, row b): row a <- c * a - s * b,
\* row b <- s * a + c * b
ApplyOnTheLeft(m, rot, a, b) ==
    IF m = None THEN None
    ELSE [p \in DOMAIN m |->
            IF p[1] = a
            THEN FSub(FMul(rot.c, m[<<a, p[2]>>]), FMul(rot.s, m[<<b, p[2]>>]))
            ELSE IF p[1] = b
            THEN FAdd(FMul(rot.s, m[<<a, p[2]>>]), FMul(rot.c, m[<<b, p[2]>>]))
            ELSE m[p]]

\* acc + x(lo) * y(lo) + ... + x(hi) * y(hi), added in the order of the index
RECURSIVE DotFrom(_, _, _, _, _)
DotFrom(x(_), y(_), lo, hi, acc) ==
    IF lo > hi THEN acc
    ELSE DotFrom(x, y, lo + 1, hi, FAdd(acc, FMul(x(lo), y(lo))))

\* jacobi_svd of the block of order two [[a, 0], [b, 0]] (Skip::Last) or
\* [[0, a], [0, b]] (Skip::First): the singular value, the left vectors (the
\* one of the singular value, and the one of the null space in the column
\* of the skipped one) and the entry of v; neg1 and neg2 are the signs the
\* two vectors come out with
JacobiRankOneOf(a, b, sigma, first, neg1, neg2) ==
    IF FEq(sigma, FZero)
    THEN [sigma |-> sigma, u |-> Identity(2, 2), vs |-> FOne]
    ELSE [sigma |-> sigma,
          u |-> MatOf(2, 2, LAMBDA i, j :
                   IF (j = 0) = first
                   THEN FNegIf(neg2, IF i = 0 THEN FNeg(FDiv(b, sigma))
                                     ELSE FDiv(a, sigma))
                   ELSE FNegIf(neg1, FDiv(IF i = 0 THEN a ELSE b, sigma))),
          vs |-> FNegIf(neg1, FOne)]
JacobiRankOne(a, b, first, neg1, neg2) ==
    JacobiRankOneOf(a, b, FSqrt(FAdd(FMul(a, a), FMul(b, b))), first, neg1, neg2)

\* the branch `k <= jacobi_fallback_threshold || rem <= jacobi_fallback_threshold`
\* with k = rem = 1: the two calls of jacobi_svd and the copies after them
\* r1 and r2 are what the two calls of jacobi_svd give
DcLeavesOf(uw, vv, d, k, rem, compact_u, debug, r1, r2) ==
    [d |-> [i \in DOMAIN d |->
              IF i >= 1 /\ i <= k THEN r1.sigma
              ELSE IF i >= k + 1 /\ i <= k + rem THEN r2.sigma
              ELSE d[i]],
     u |-> IF compact_u = 1
           THEN [p \in DOMAIN uw |->
                   IF p[2] = 0 THEN r1.u[<<IF p[1] = 0 THEN 0 ELSE k, k>>]
                   ELSE IF p[2] <= k
                   THEN r1.u[<<IF p[1] = 0 THEN 0 ELSE k, p[2] - 1>>]
                   ELSE IF p[2] = k + 1 + rem
                   THEN r2.u[<<IF p[1] = 0 THEN 0 ELSE rem, 0>>]
                   ELSE r2.u[<<IF p[1] = 0 THEN 0 ELSE rem, p[2] - k>>]]
           ELSE [p \in DOMAIN uw |->
                   IF p[1] <= k
                   THEN (IF p[2] >= 1 /\ p[2] <= k + 1
                         THEN r1.u[<<p[1], p[2] - 1>>] ELSE uw[p])
                   ELSE IF p[2] = k + 1 + rem THEN r2.u[<<p[1] - k - 1, 0>>]
                   ELSE IF p[2] = k
                   THEN (IF debug THEN FNaN ELSE r2.u[<<p[1] - k - 1, 0>>])
                   ELSE IF p[2] > k /\ p[2] <= k + rem
                   THEN r2.u[<<p[1] - k - 1, p[2] - k>>]
                   ELSE uw[p]],
     v |-> IF vv = None THEN None
           ELSE [p \in DOMAIN vv |->
                   IF p[1] < k /\ p[2] >= 1 /\ p[2] <= k THEN r1.vs
                   ELSE IF p[1] < k /\ p[2] = k + 1
                   THEN (IF debug THEN FNaN ELSE vv[p])
                   ELSE IF p[1] > k /\ p[2] = k
                   THEN (IF debug THEN FNaN ELSE vv[p])
                   ELSE IF p[1] > k /\ p[2] > k /\ p[2] <= k + rem THEN r2.vs
                   ELSE vv[p]]]
DcLeaves(uw, vv, d, e, k, rem, compact_u, negs, debug) ==
    DcLeavesOf(uw, vv, d, k, rem, compact_u, debug,
               JacobiRankOne(d[0], e[0], FALSE, negs[1], negs[2]),
               JacobiRankOne(d[k + 1], e[k + 1], TRUE, negs[3], negs[4]))

\* from `v.write(k, 0, 1)` to the rotation of the two outer columns of u:
\* col0 takes the place of subdiag
\* al = alpha * lambda, bp = beta * phi and r0 = sqrt(al^2 + bp^2); c0 and
\* s0 are al / r0 and bp / r0, or one and zero when r0 is zero
DcMergeRowOf(uw, vv, d, e, alpha, beta, k, rem, compact_u, debug, r0, c0, s0) ==
    [d |-> [d EXCEPT ![0] = r0],
     col0 |-> [i \in DOMAIN e |->
                 IF i = 0 THEN r0
                 ELSE IF i <= k
                 THEN FMul(alpha, IF compact_u = 0 THEN uw[<<k, i>>] ELSE uw[<<1, i>>])
                 ELSE FMul(beta, IF compact_u = 0 THEN uw[<<k + 1, i>>]
                                 ELSE uw[<<0, i>>])],
     u |-> IF compact_u = 0
           THEN [p \in DOMAIN uw |->
                   IF p[1] <= k
                   THEN (IF p[2] = 0 THEN FMul(c0, uw[<<p[1], k + 1>>])
                         ELSE IF p[2] = k + 1 + rem
                         THEN FMul(FNeg(s0), uw[<<p[1], k + 1>>])
                         ELSE IF p[2] = k + 1 /\ debug THEN FNaN
                         ELSE uw[p])
                   ELSE (IF p[2] = 0 THEN FMul(s0, uw[<<p[1], k + 1 + rem>>])
                         ELSE IF p[2] = k + 1 + rem
                         THEN FMul(c0, uw[<<p[1], k + 1 + rem>>])
                         ELSE uw[p])]
           ELSE [p \in DOMAIN uw |->
                   IF p = <<0, 0>> THEN FMul(c0, uw[<<0, 0>>])
                   ELSE IF p = <<0, k + 1 + rem>> THEN FMul(FNeg(s0), uw[<<0, 0>>])
                   ELSE IF p = <<1, 0>> THEN FMul(s0, uw[<<1, k + 1 + rem>>])
                   ELSE IF p = <<1, k + 1 + rem>> THEN FMul(c0, uw[<<1, k + 1 + rem>>])
                   ELSE IF p[1] = 1 /\ p[2] >= 1 /\ p[2] <= k THEN FZero
                   ELSE IF p[1] = 0 /\ p[2] > k /\ p[2] <= k + rem THEN FZero
                   ELSE uw[p]],
     v |-> IF vv = None THEN None ELSE [vv EXCEPT ![<<k, 0>>] = FOne]]
DcMergeRotation(uw, vv, d, e, alpha, beta, k, rem, compact_u, debug, al, bp, r0) ==
    DcMergeRowOf(uw, vv, d, e, alpha, beta, k, rem, compact_u, debug, r0,
                 IF FEq(r0, FZero) THEN FOne ELSE FDiv(al, r0),
                 IF FEq(r0, FZero) THEN FZero ELSE FDiv(bp, r0))
DcMergeScaled(uw, vv, d, e, alpha, beta, k, rem, compact_u, debug, al, bp) ==
    DcMergeRotation(uw, vv, d, e, alpha, beta, k, rem, compact_u, debug, al, bp,
                    FSqrt(FAdd(FMul(al, al), FMul(bp, bp))))
DcMergeRow(uw, vv, d, e, alpha, beta, k, rem, compact_u, debug) ==
    DcMergeScaled(uw, vv, d, e, alpha, beta, k, rem, compact_u, debug,
        FMul(alpha, IF compact_u = 0 THEN uw[<<k, k + 1>>] ELSE uw[<<1, 0>>]),
        FMul(beta, IF compact_u = 0 THEN uw[<<k + 1, k + 1 + rem>>]
                   ELSE uw[<<0, k + 1 + rem>>]))

\* deflation43 with the rotation saved twice
Deflation43Twice(ds, i) ==
    LET c == ds.col0[0]
        s == ds.col0[i]
        r == FSqrt(FAdd(FMul(c, c), FMul(s, s)))
    IN [ds EXCEPT !.col0 = [@ EXCEPT ![0] = r, ![i] = FZero],
                  !.d = [@ EXCEPT ![0] = r, ![i] = FZero],
                  !.indices = [@ EXCEPT ![ds.jacobi_0i] = i],
                  !.jacobi_0i = @ + 2]
\* deflation43 with col0[i] left as it was
Deflation43Col0Kept(ds, i) ==
    LET c == ds.col0[0]
        s == ds.col0[i]
        r == FSqrt(FAdd(FMul(c, c), FMul(s, s)))
    IN [ds EXCEPT !.col0 = [@ EXCEPT ![0] = r],
                  !.d = [@ EXCEPT ![0] = r, ![i] = FZero],
                  !.indices = [@ EXCEPT ![ds.jacobi_0i] = i],
                  !.jacobi_0i = @ + 1]
\* deflation43 with the index of the rotation not saved
Deflation43IndexLost(ds, i) ==
    LET c == ds.col0[0]
        s == ds.col0[i]
        r == FSqrt(FAdd(FMul(c, c), FMul(s, s)))
    IN [ds EXCEPT !.col0 = [@ EXCEPT ![0] = r, ![i] = FZero],
                  !.d = [@ EXCEPT ![0] = r, ![i] = FZero],
                  !.coeffs = [@ EXCEPT ![ds.jacobi_0i] =
                                [c |-> FDiv(c, r), s |-> FDiv(FNeg(s), r)]],
                  !.jacobi_0i = @ + 1]

\* deflation43: the rotation of rows 0 and i that brings col0[i] into
\* col0[0]; ds is the record of diag (d), col0, perm, the rotations saved
\* (coeffs, indices) and their two counts
Deflation43(ds, i) ==
    LET c == ds.col0[0]
        s == ds.col0[i]
        r == FSqrt(FAdd(FMul(c, c), FMul(s, s)))
    IN IF FEq(r, FZero)
       THEN [ds EXCEPT !.d = [@ EXCEPT ![i] = FZero]]
       ELSE [ds EXCEPT !.col0 = [@ EXCEPT ![0] = r, ![i] = FZero],
                       !.d = [@ EXCEPT ![0] = r, ![i] = FZero],
                       !.coeffs = [@ EXCEPT ![ds.jacobi_0i] =
                                     [c |-> FDiv(c, r), s |-> FDiv(FNeg(s), r)]],
                       !.indices = [@ EXCEPT ![ds.jacobi_0i] = i],
                       !.jacobi_0i = @ + 1]

\* deflation44: the rotation of rows i and j = i + 1 that brings col0[j]
\* into col0[i], the two diagonal entries being taken as equal
Deflation44(ds, i, j) ==
    LET c == ds.col0[i]
        s == ds.col0[j]
        r == FSqrt(FAdd(FMul(c, c), FMul(s, s)))
    IN IF FEq(r, FZero)
       THEN [ds EXCEPT !.d = [@ EXCEPT ![i] = ds.d[j]]]
       ELSE [ds EXCEPT !.col0 = [@ EXCEPT ![i] = r, ![j] = FZero],
                       !.d = [@ EXCEPT ![j] = ds.d[i]],
                       !.coeffs = [@ EXCEPT ![ds.jacobi_0i + ds.jacobi_ij] =
                                     [c |-> FDiv(c, r), s |-> FDiv(FNeg(s), r)]],
                       !.indices = [@ EXCEPT ![ds.jacobi_0i + ds.jacobi_ij] = j],
                       !.jacobi_ij = @ + 1]

\* one turn of the loop of condition 4.3
Deflate43Turn(ds, i, epsilon_coarse) ==
    IF FLt(ds.d[i], epsilon_coarse) THEN Deflation43(ds, i) ELSE ds

\* condition 4.3: `for i in 1..n { if diag[i] < epsilon_coarse { ... } }`
RECURSIVE Deflate43Loop(_, _, _, _)
Deflate43Loop(ds, i, nn, epsilon_coarse) ==
    IF i >= nn THEN ds
    ELSE Deflate43Loop(Deflate43Turn(ds, i, epsilon_coarse), i + 1, nn,
                       epsilon_coarse)

\* `for (d, i) in diag[1..].iter().zip(1..n)`: the indices of the entries of
\* diag below the threshold go to perm[1], perm[2], ...; gives perm and p
RECURSIVE DeflateZeros(_, _, _, _, _, _)
DeflateZeros(perm, p, i, d, nn, consider_zero_threshold) ==
    IF i >= nn THEN [perm |-> perm, p |-> p]
    ELSE IF FLt(FAbs(d[i]), consider_zero_threshold)
    THEN DeflateZeros([perm EXCEPT ![p] = i], p + 1, i + 1, d, nn,
                      consider_zero_threshold)
    ELSE DeflateZeros(perm, p, i + 1, d, nn, consider_zero_threshold)

\* the merge with the smaller entry of diag first
RECURSIVE DeflateMergeSmallerFirst(_, _, _, _, _, _, _)
DeflateMergeSmallerFirst(perm, q, i, j, d, k, nn) ==
    IF q >= nn THEN perm
    ELSE IF i > k
    THEN DeflateMergeSmallerFirst([perm EXCEPT ![q] = j], q + 1, i, j + 1, d, k, nn)
    ELSE IF j >= nn
    THEN DeflateMergeSmallerFirst([perm EXCEPT ![q] = i], q + 1, i + 1, j, d, k, nn)
    ELSE IF FLt(d[j], d[i])
    THEN DeflateMergeSmallerFirst([perm EXCEPT ![q] = j], q + 1, i, j + 1, d, k, nn)
    ELSE DeflateMergeSmallerFirst([perm EXCEPT ![q] = i], q + 1, i + 1, j, d, k, nn)

\* `for p in &mut perm[p..]`: the merge of 1 .. k and k+1 .. n-1, the larger
\* entry of diag first
RECURSIVE DeflateMerge(_, _, _, _, _, _, _)
DeflateMerge(perm, q, i, j, d, k, nn) ==
    IF q >= nn THEN perm
    ELSE IF i > k THEN DeflateMerge([perm EXCEPT ![q] = j], q + 1, i, j + 1, d, k, nn)
    ELSE IF j >= nn THEN DeflateMerge([perm EXCEPT ![q] = i], q + 1, i + 1, j, d, k, nn)
    ELSE IF FLt(d[i], d[j])
    THEN DeflateMerge([perm EXCEPT ![q] = j], q + 1, i, j + 1, d, k, nn)
    ELSE DeflateMerge([perm EXCEPT ![q] = i], q + 1, i + 1, j, d, k, nn)

\* `if total_deflation { for i in 1..n { ... } }`: perm is moved down by one
\* place up to the first entry that stays below diag[0]
RECURSIVE DeflateTotalShift(_, _, _, _, _)
DeflateTotalShift(perm, i, d, nn, consider_zero_threshold) ==
    IF i >= nn THEN perm
    ELSE LET pi == perm[i]
         IN IF FLt(FAbs(d[pi]), consider_zero_threshold) \/ FGt(d[pi], d[0])
            THEN DeflateTotalShift([perm EXCEPT ![i - 1] = pi], i + 1, d, nn,
                                   consider_zero_threshold)
            ELSE [perm EXCEPT ![i - 1] = 0]

\* `for i in (if total_deflation { 0 } else { 1 })..n`: diag and col0 are put
\* in the order of perm read from its end; w holds d, c, perm,
\* transpositions, real_ind and real_col
RECURSIVE DeflateSwaps(_, _, _, _)
DeflateSwaps(w, i, nn, total_deflation) ==
    IF i >= nn THEN w
    ELSE LET pi == w.perm[nn - (IF total_deflation THEN i + 1 ELSE i)]
             j == w.real_col[pi]
             real_i == w.real_ind[i]
             swap(x) == [x EXCEPT ![i] = x[j], ![j] = x[i]]
         IN DeflateSwaps(
                [w EXCEPT !.d = swap(@),
                          !.c = IF i # 0 /\ j # 0 THEN swap(@) ELSE @,
                          !.transpositions = [@ EXCEPT ![i] = j],
                          !.real_col = [[@ EXCEPT ![real_i] = j] EXCEPT ![pi] = i],
                          !.real_ind = [[@ EXCEPT ![j] = real_i] EXCEPT ![i] = pi]],
                i + 1, nn, total_deflation)

\* `for (i, j) in transpositions.iter().copied().enumerate() { perm.swap(i, j) }`
RECURSIVE DeflateTranspose(_, _, _, _)
DeflateTranspose(perm, transpositions, i, nn) ==
    IF i >= nn THEN perm
    ELSE DeflateTranspose([perm EXCEPT ![i] = perm[transpositions[i]],
                                       ![transpositions[i]] = perm[i]],
                          transpositions, i + 1, nn)

\* the first loop of condition 4.4: the last index whose diag and col0 are
\* both at least the threshold
RECURSIVE Deflate44Start(_, _, _, _)
Deflate44Start(d, c, i, consider_zero_threshold) ==
    IF i > 0 /\ (\/ FLt(FAbs(d[i]), consider_zero_threshold)
                 \/ FLt(FAbs(c[i]), consider_zero_threshold))
    THEN Deflate44Start(d, c, i - 1, consider_zero_threshold)
    ELSE i

\* the second loop of condition 4.4: `while i > 1`
RECURSIVE Deflate44Loop(_, _, _)
Deflate44Loop(ds, i, epsilon_strict) ==
    IF i <= 1 THEN ds
    ELSE Deflate44Loop(IF FLt(FSub(ds.d[i], ds.d[i - 1]), epsilon_strict)
                       THEN Deflation44(ds, i - 1, i) ELSE ds,
                       i - 1, epsilon_strict)

\* col0 left as the sort of diag leaves it
DeflateHeadKept(c, d) == c
\* `col0[0] = diag[0];`
DeflateHead(c, d) == [c EXCEPT ![0] = d[0]]

\* deflate from "condition 4.4" on: w holds diag and col0 in their new
\* order and the transpositions that perm is made of
DeflateTail(ds, w, nn, epsilon_strict, consider_zero_threshold) ==
    Deflate44Loop(
        [ds EXCEPT !.d = w.d, !.col0 = DeflateHead(w.c, w.d),
                   !.perm = DeflateTranspose([i \in 0 .. nn - 1 |-> i],
                                             w.transpositions, 0, nn)],
        Deflate44Start(w.d, DeflateHead(w.c, w.d), nn - 1,
                       consider_zero_threshold),
        epsilon_strict)
\* the sort of diag: perm is the merge of the two halves after the indices
\* of the entries taken as zero, and diag and col0 are put in its order
DeflateSort(ds, k, nn, epsilon_strict, consider_zero_threshold, total_deflation, z) ==
    DeflateTail(ds,
        DeflateSwaps([d |-> ds.d, c |-> ds.col0,
                      perm |-> IF total_deflation
                               THEN DeflateTotalShift(
                                        DeflateMerge(z.perm, z.p, 1, k + 1, ds.d, k, nn),
                                        1, ds.d, nn, consider_zero_threshold)
                               ELSE DeflateMerge(z.perm, z.p, 1, k + 1, ds.d, k, nn),
                      transpositions |-> [i \in 0 .. nn - 1 |-> 0],
                      real_ind |-> [i \in 0 .. nn - 1 |-> i],
                      real_col |-> [i \in 0 .. nn - 1 |-> i]],
                     IF total_deflation THEN 0 ELSE 1, nn, total_deflation),
        nn, epsilon_strict, consider_zero_threshold)
\* deflate after condition 4.3, ds being what its loop leaves
DeflateSorted(ds, k, nn, epsilon_strict, consider_zero_threshold) ==
    DeflateSort(ds, k, nn, epsilon_strict, consider_zero_threshold,
        \A i \in 1 .. nn - 1 : FLt(FAbs(ds.col0[i]), consider_zero_threshold),
        DeflateZeros([i \in 0 .. nn - 1 |-> 0], 1, 1, ds.d, nn,
                     consider_zero_threshold))
\* conditions 4.1 and 4.2: diag[0] and col0[0] raised to epsilon_coarse, the
\* entries of col0 below epsilon_strict put to zero; gives the record that
\* the rest of deflate works on, no rotation saved yet
DeflateBegin(d, col0, nn, epsilon_strict, epsilon_coarse) ==
    [d |-> IF FLt(d[0], epsilon_coarse) THEN [d EXCEPT ![0] = epsilon_coarse]
           ELSE d,
     col0 |-> [i \in DOMAIN col0 |->
                 IF i = 0
                 THEN (IF FLt(d[0], epsilon_coarse) THEN epsilon_coarse
                       ELSE col0[0])
                 ELSE IF FLt(FAbs(col0[i]), epsilon_strict) THEN FZero
                 ELSE col0[i]],
     perm |-> [i \in 0 .. nn - 1 |-> 0],
     coeffs |-> [i \in 0 .. nn - 1 |-> [c |-> FZero, s |-> FZero]],
     indices |-> [i \in 0 .. nn - 1 |-> 0],
     jacobi_0i |-> 0, jacobi_ij |-> 0]
\* conditions 4.1 to 4.3 under the two thresholds
DeflateWith(d, col0, k, nn, consider_zero_threshold, epsilon_strict, epsilon_coarse) ==
    DeflateSorted(
        Deflate43Loop(DeflateBegin(d, col0, nn, epsilon_strict, epsilon_coarse),
                      1, nn, epsilon_coarse),
        k, nn, epsilon_strict, consider_zero_threshold)
\* `let epsilon_strict = max(epsilon * max_diag, consider_zero_threshold)`
EpsilonStrict(d, epsilon, consider_zero_threshold) ==
    FMax(FMul(epsilon, MaxAbsFrom(d, 1, FZero)), consider_zero_threshold)
\* `let epsilon_coarse = 8 * epsilon * max(max_diag, max_col0)`
EpsilonCoarse(d, col0, epsilon) ==
    FMul(FMul(FEight, epsilon),
         FMax(MaxAbsFrom(d, 1, FZero), MaxAbsFrom(col0, 0, FZero)))
\* deflate: diag (d), col0 and perm after it, the rotations saved and their
\* counts jacobi_0i and jacobi_ij
Deflate(d, col0, k, nn, epsilon, consider_zero_threshold) ==
    DeflateWith(d, col0, k, nn, consider_zero_threshold,
        EpsilonStrict(d, epsilon, consider_zero_threshold),
        EpsilonCoarse(d, col0, epsilon))

\* the product of perturb_col0 for the index k, from the entry l of perm on
RECURSIVE PerturbProd(_, _, _, _, _, _, _)
PerturbProd(k, l, prod, d, perm, sv, dk) ==
    IF l >= Len(perm) THEN prod
    ELSE LET i == perm[l + 1]
             j == IF i < k THEN i ELSE IF l > 0 THEN perm[l] ELSE i
             term == FMul(FDiv(FAdd(sv[j].s, dk), FAdd(d[i], dk)),
                          FDiv(FAdd(sv[j].mu, FSub(sv[j].shift, dk)), FSub(d[i], dk)))
         IN IF i = k THEN PerturbProd(k, l + 1, prod, d, perm, sv, dk)
            ELSE IF i >= k /\ l = 0 THEN FZero
            ELSE PerturbProd(k, l + 1, FMul(prod, term), d, perm, sv, dk)

\* perturb_col0: zhat, the col0 that has the values found as its exact
\* singular values; perm is the sequence of the active indices, sv[k] the
\* record of s, shift and mu of the index k
PerturbCol0(col0, d, perm, sv, nn) ==
    IF Len(perm) = 0 THEN [k \in 0 .. nn - 1 |-> FZero]
    ELSE LET last_idx == perm[Len(perm)]
         IN [k \in 0 .. nn - 1 |->
               IF FEq(col0[k], FZero) THEN FZero
               ELSE LET dk == d[k]
                        prod0 == FMul(FAdd(sv[last_idx].s, dk),
                                      FAdd(sv[last_idx].mu,
                                           FSub(sv[last_idx].shift, dk)))
                        tmp == FSqrt(PerturbProd(k, 0, prod0, d, perm, sv, dk))
                    IN IF FGt(col0[k], FZero) THEN tmp ELSE FNeg(tmp)]

\* the pass left out: s and col_perm as they were
SortPassSkipped(w, i, actual_n) == w

\* `for i in 0..actual_n - 1`: one pass that swaps s[i] and s[i+1] when they
\* are out of order, and col_perm with them
RECURSIVE SortPass(_, _, _)
SortPass(w, i, actual_n) ==
    IF i >= actual_n - 1 THEN w
    ELSE SortPass(IF FGt(w.s[i], w.s[i + 1])
                  THEN [s |-> [w.s EXCEPT ![i] = w.s[i + 1], ![i + 1] = w.s[i]],
                        col_perm |-> [w.col_perm EXCEPT ![i] = w.col_perm[i + 1],
                                                        ![i + 1] = w.col_perm[i]]]
                  ELSE w,
                  i + 1, actual_n)

\* `for (i, p) in col_perm.iter().copied().enumerate() { col_perm_inv[p] = i; }`
RECURSIVE ColPermInv(_, _, _, _)
ColPermInv(col_perm, col_perm_inv, i, actual_n) ==
    IF i >= actual_n THEN col_perm_inv
    ELSE ColPermInv(col_perm, [col_perm_inv EXCEPT ![col_perm[i]] = i], i + 1,
                    actual_n)

\* the two loops that write s back to diag: the first actual_n values last
\* first, the others in their places
DiagWritten(sorted_s, actual_n, nn) ==
    [idx \in 0 .. nn - 1 |->
        IF idx < actual_n THEN sorted_s[actual_n - idx - 1] ELSE sorted_s[idx]]

\* the column of um (left = TRUE, nn + 1 rows) or of vm (nn rows) that
\* compute_singular_vectors writes for the index k
SingularVector(left, k, zhat, d, perm, outer_perm, sv, nn) ==
    LET rows == IF left THEN nn + 1 ELSE nn
        mu == sv[k].mu
        shift == sv[k].shift
        entry(i) ==
            FDiv(FDiv(IF left THEN zhat[i] ELSE FMul(d[i], zhat[i]),
                      FSub(FSub(d[i], shift), mu)),
                 FAdd(d[i], FAdd(shift, mu)))
        from == IF left THEN 1 ELSE 2
        written == from .. Len(perm)
        col == Eval([r \in 0 .. rows - 1 |->
                  IF ~left /\ r = outer_perm[0] THEN FNeg(FOne)
                  ELSE IF left /\ r = nn THEN FZero
                  ELSE IF \E l \in written : outer_perm[perm[l]] = r
                  THEN entry(perm[CHOOSE l \in written : outer_perm[perm[l]] = r])
                  ELSE FZero])
        norm_inv == FInv(FSqrt(SumSquares(col, 0, FZero)))
    IN IF FEq(zhat[k], FZero)
       THEN [r \in 0 .. rows - 1 |-> IF r = outer_perm[k] THEN FOne ELSE FZero]
       ELSE [r \in 0 .. rows - 1 |-> FMul(col[r], norm_inv)]

\* compute_singular_vectors on the zeroed um (left = TRUE) or vm
ComputeSingularVectors(left, zhat, d, perm, outer_perm, col_perm_inv, actual_n, sv, nn) ==
    LET actual(k) == IF k >= actual_n THEN k ELSE actual_n - col_perm_inv[k] - 1
        size == IF left THEN nn + 1 ELSE nn
        cols == Eval([k \in 0 .. nn - 1 |->
                    Eval(SingularVector(left, k, zhat, d, perm, outer_perm, sv, nn))])
    IN MatOf(size, size, LAMBDA r, c :
           IF c = nn THEN (IF r = nn THEN FOne ELSE FZero)
           ELSE cols[CHOOSE k \in 0 .. nn - 1 : actual(k) = c][r])

\* `assert!(col0[actual_n] == E::faer_zero())` failing for one of the entries
\* cut from the end of diag
TrimAssertFails(col0, actual_n, nn) ==
    \E i \in actual_n .. nn - 1 : ~FEq(col0[i], FZero)

\* the end of compute_svd_of_m: col_perm_inv, the values written to diag and
\* the vectors; sorted holds s and col_perm after the pass over them. An
\* assert! that failed (line 60, or one of compute_singular_values) left
\* diag with diag[0] = 0 written and nothing else, um and vm as zeroed
SvdOfMResult(fill_u, fill_v, d, col0, outer_perm, nn, sv, actual_n, zhat, sorted) ==
    LET panic == \/ TrimAssertFails(col0, actual_n, nn)
                 \/ \E k \in 0 .. nn - 1 : sv[k].panic
        col_perm_inv == ColPermInv(sorted.col_perm, [i \in 0 .. actual_n - 1 |-> i],
                                   0, actual_n)
    IN [panic |-> panic,
        d |-> IF panic THEN d ELSE DiagWritten(sorted.s, actual_n, nn),
        um |-> IF ~fill_u THEN None
               ELSE IF panic THEN MatOf(nn + 1, nn + 1, LAMBDA r, c : FZero)
               ELSE ComputeSingularVectors(TRUE, zhat, d,
                        ActivePerm(col0, actual_n, 0), outer_perm, col_perm_inv,
                        actual_n, sv, nn),
        vm |-> IF ~fill_v THEN None
               ELSE IF panic THEN MatOf(nn, nn, LAMBDA r, c : FZero)
               ELSE ComputeSingularVectors(FALSE, zhat, d,
                        ActivePerm(col0, actual_n, 0), outer_perm, col_perm_inv,
                        actual_n, sv, nn)]
\* perturb_col0 and the one pass that sorts the values sv[k].s
SvdOfMSort(fill_u, fill_v, d, col0, outer_perm, nn, sv, actual_n) ==
    SvdOfMResult(fill_u, fill_v, d, col0, outer_perm, nn, sv, actual_n,
        Eval(PerturbCol0(col0, d, ActivePerm(col0, actual_n, 0), sv, nn)),
        SortPass([s |-> [k \in 0 .. nn - 1 |-> sv[k].s],
                  col_perm |-> [i \in 0 .. actual_n - 1 |-> i]], 0, actual_n))
\* compute_singular_values on d, which is diag with d[0] = 0
SvdOfMSolve(fill_u, fill_v, d, col0, outer_perm, nn, epsilon) ==
    SvdOfMSort(fill_u, fill_v, d, col0, outer_perm, nn,
        Eval([k \in 0 .. nn - 1 |->
                ComputeSingularValue(k, d, col0, SecularOf(d, col0, nn), nn, epsilon)]),
        TrimZeros(d, nn))
\* compute_svd_of_m: the singular values of the matrix of diag and col0 in
\* d, its singular vectors in um and vm (None when not asked for), and
\* whether an assert! failed
ComputeSvdOfM(fill_u, fill_v, diag0, col0, outer_perm, nn, epsilon) ==
    SvdOfMSolve(fill_u, fill_v, Eval([diag0 EXCEPT ![0] = FZero]), col0, outer_perm,
                nn, epsilon)

\* the rotations of deflation43, applied to rows 0 and i of um, last first
RECURSIVE ApplyRotations0i(_, _, _)
ApplyRotations0i(um, df, idx) ==
    IF idx < 0 THEN um
    ELSE ApplyRotations0i(Eval(ApplyOnTheLeft(um, df.coeffs[idx], 0, df.indices[idx])),
                          df, idx - 1)

\* the row taken to be the index itself, perm not looked at
PermRowDirect(perm, x, nn) == x

\* `for (k, &p) in perm.iter().enumerate() { if p == i { actual_i = k; } }`:
\* the last place of perm that holds x, 0 when none does
PermRow(perm, x, nn) ==
    IF \E q \in 0 .. nn - 1 : perm[q] = x
    THEN CHOOSE q \in 0 .. nn - 1 :
             perm[q] = x /\ \A r \in 0 .. nn - 1 : perm[r] = x => r <= q
    ELSE 0

\* the rotations of deflation44, applied last first to the rows of m that
\* perm sends to i - 1 and i
RECURSIVE ApplyRotationsij(_, _, _, _)
ApplyRotationsij(m, df, idx, nn) ==
    IF idx < df.jacobi_0i THEN m
    ELSE LET i == df.indices[idx] - 1
             j == df.indices[idx]
             at(x) == PermRow(df.perm, x, nn)
             lo == IF at(i) < at(j) THEN at(i) ELSE at(j)
             hi == IF at(i) < at(j) THEN at(j) ELSE at(i)
         IN ApplyRotationsij(Eval(ApplyOnTheLeft(m, df.coeffs[idx], lo, hi)), df,
                             idx - 1, nn)

\* update_v: v <- v * vm, block by block
UpdateV(vv, vm, k, rem) ==
    IF vv = None THEN None
    ELSE [p \in DOMAIN vv |->
            IF p[1] < k
            THEN DotFrom(LAMBDA l : vv[<<p[1], 1 + l>>],
                         LAMBDA l : vm[<<1 + l, p[2]>>], 0, k - 1, FZero)
            ELSE IF p[1] = k
            THEN DotFrom(LAMBDA l : vv[<<k, l>>], LAMBDA l : vm[<<l, p[2]>>], 0, 0, FZero)
            ELSE DotFrom(LAMBDA l : vv[<<p[1], k + 1 + l>>],
                         LAMBDA l : vm[<<k + 1 + l, p[2]>>], 0, rem - 1, FZero)]

\* update_u on a u of n + 1 rows: u <- u * um, the two diagonal blocks and
\* the column that couples them; on a u of two rows (compact_u = 1) the
\* whole product of u and um
UpdateU(uw, um, k, rem) ==
    LET nn == k + 1 + rem
        compact_u == <<nn, 0>> \notin DOMAIN uw
    IN [p \in DOMAIN uw |->
          IF compact_u
          THEN DotFrom(LAMBDA l : uw[<<p[1], l>>],
                       LAMBDA l : um[<<l, p[2]>>], 0, nn, FZero)
          ELSE IF p[1] <= k
          THEN FAdd(DotFrom(LAMBDA l : uw[<<p[1], l>>],
                            LAMBDA l : um[<<l, p[2]>>], 0, k, FZero),
                    DotFrom(LAMBDA l : uw[<<p[1], nn>>],
                            LAMBDA l : um[<<nn, p[2]>>], 0, 0, FZero))
          ELSE FAdd(DotFrom(LAMBDA l : uw[<<p[1], k + 1 + l>>],
                            LAMBDA l : um[<<k + 1 + l, p[2]>>], 0, rem, FZero),
                    DotFrom(LAMBDA l : uw[<<p[1], 0>>],
                            LAMBDA l : um[<<0, p[2]>>], 0, 0, FZero))]

----------------------------------------------------------------------------
(* Scratch sizing: bidiag_real_svd_req and the allocations of the solver.   *)
(* Sizes are in bytes.  usize is modelled UsizeBits wide.  A matrix of r    *)
(* rows and c columns of E takes r * c * UnitBytes bytes and an array of n  *)
(* T takes n * size_of(T) bytes: the padding that the allocator adds for    *)
(* alignment is left out of the requirement and of the usage alike.         *)

\* size_of::<usize>() and size_of::<E>() for E = f64
UsizeBytes == 8
UnitBytes == 8

\* Err(SizeOverflow)
SizeOverflow == -1

CheckedMul(a, b) ==
    IF a = SizeOverflow \/ b = SizeOverflow THEN SizeOverflow
    ELSE IF a # 0 /\ b > UsizeMax \div a THEN SizeOverflow
    ELSE a * b
CheckedAdd(a, b) ==
    IF a = SizeOverflow \/ b = SizeOverflow THEN SizeOverflow
    ELSE IF b > UsizeMax - a THEN SizeOverflow
    ELSE a + b
\* `+` on usize as a release build computes it
WrappingAdd(a, b) == (a + b) % Pow2(UsizeBits)

\* StackReq::try_new::<T>(n) for a T of `bytes` bytes
StackReqTryNew(n, bytes) == CheckedMul(n, bytes)
\* StackReq::try_all_of over a sequence of requirements
RECURSIVE TryAllOf(_)
TryAllOf(reqs) ==
    IF reqs = <<>> THEN 0
    ELSE CheckedAdd(Head(reqs), TryAllOf(Tail(reqs)))
\* faer_core::temp_mat_req::<E>(nrows, ncols)
TempMatReq(nrows, ncols) == CheckedMul(CheckedMul(nrows, ncols), UnitBytes)

BidiagRealSvdReqWrapped(n, jacobi_fallback_threshold, compute_u, compute_v) ==
    IF n <= jacobi_fallback_threshold THEN TempMatReq(n, n)
    ELSE LET np1 == WrappingAdd(n, 1)
             nn == (n * UsizeBytes) % Pow2(UsizeBits)
             mat(r, c) == (((r * c) % Pow2(UsizeBits)) * UnitBytes) % Pow2(UsizeBits)
             vm == mat(n, IF compute_v THEN n ELSE 0)
         IN (7 * nn + 2 * vm + mat(np1, np1)
                + mat(IF compute_u THEN np1 ELSE 2, np1)) % Pow2(UsizeBits)

\* bidiag_real_svd_req: SizeOverflow or the number of bytes
BidiagRealSvdReq(n, jacobi_fallback_threshold, compute_u, compute_v) ==
    IF n <= jacobi_fallback_threshold THEN TempMatReq(n, n)
    ELSE LET perm == StackReqTryNew(n, UsizeBytes)
             jacobi_coeffs == StackReqTryNew(n, 2 * UnitBytes)
         IN IF perm = SizeOverflow \/ jacobi_coeffs = SizeOverflow
            THEN SizeOverflow
            ELSE LET np1 == WrappingAdd(n, 1)
                     um == TempMatReq(np1, np1)
                     vm == TempMatReq(n, IF compute_v THEN n ELSE 0)
                     combined_u == TempMatReq(IF compute_u THEN np1 ELSE 2, np1)
                     prologue == TryAllOf(<<perm, jacobi_coeffs, perm>>)
                 IN TryAllOf(<<prologue, um, vm, combined_u, vm,
                               perm, perm, perm>>)

\* the requirement in unbounded arithmetic
ExactReq(n, jacobi_fallback_threshold, compute_u, compute_v) ==
    IF n <= jacobi_fallback_threshold THEN n * n * UnitBytes
    ELSE 4 * n * UsizeBytes + n * 2 * UnitBytes
         + (n + 1) * (n + 1) * UnitBytes
         + 2 * (IF compute_v THEN n * n * UnitBytes ELSE 0)
         + (IF compute_u THEN n + 1 ELSE 2) * (n + 1) * UnitBytes
         + n * UsizeBytes

\* bytes of a temporary matrix and of an array, as the solver allocates them
MatBytes(nrows, ncols) == nrows * ncols * UnitBytes
ArrBytes(n, bytes) == n * bytes
B2N(b) == IF b THEN 1 ELSE 0

\* scratch that compute_svd_of_m draws after um and vm: perm, col0_perm and
\* diag_perm (one entry per active index, at most n), shifts, mus,
\* singular_vals and zhat, then col_perm and col_perm_inv
SvdOfMBytes(n, actual_n, active) ==
    ArrBytes(active, UsizeBytes) + 2 * ArrBytes(active, UnitBytes)
    + 4 * MatBytes(n, 1) + 2 * ArrBytes(actual_n, UsizeBytes)

\* scratch of deflate: transpositions, real_ind, real_col
DeflateBytes(n) == 3 * ArrBytes(n, UsizeBytes)

\* `let compact_u = (u.nrows() != n + 1) as usize` on a u that has two rows
\* when two_rows and n + 1 otherwise
CompactU(n, two_rows) == two_rows /\ n + 1 # 2

\* the branch of the leaves on a half without entries (rem = 0): with v the
\* columns 1 .. k + 1 of the first k rows of v are asked for, one more than
\* v has, and the call panics before jacobi_svd
LeafPanicsAtV(n, has_v) == n - 1 - n \div 2 = 0 /\ has_v
\* and with a u of n + 1 rows the merge row asks for column k of the n - 1
\* columns between the two outer ones, k being n - 1
LeafPanicsAtU(n, two_rows, has_v) ==
    n - 1 - n \div 2 = 0 /\ ~has_v /\ ~CompactU(n, two_rows)

\* whether a call of bidiag_svd_impl on n entries, none of its parts being
\* all zeros, panics on an index, in itself or in the calls it makes
RECURSIVE ImplPanics(_, _, _, _)
ImplPanics(n, two_rows, has_v, jacobi_fallback_threshold) ==
    LET k == n \div 2
        rem == n - 1 - k
    IN IF k <= jacobi_fallback_threshold \/ rem <= jacobi_fallback_threshold
       THEN LeafPanicsAtV(n, has_v) \/ LeafPanicsAtU(n, two_rows, has_v)
       ELSE \/ ImplPanics(k, two_rows, has_v, jacobi_fallback_threshold)
            \/ ImplPanics(rem, two_rows, has_v, jacobi_fallback_threshold)

\* the most bytes bidiag_svd_impl has in use at once, children left out, up
\* to its return or its panic, when no index is deflated (actual_n = n and
\* every col0 entry is non-zero); rayon: the V and U updates run under
\* join, each on its own part
ImplOwnBytes(n, two_rows, fill_u, has_v, rayon, jacobi_fallback_threshold) ==
    LET k == n \div 2
        rem == n - 1 - k
        compact_u == CompactU(n, two_rows)
        leaves == k <= jacobi_fallback_threshold \/ rem <= jacobi_fallback_threshold
        u_alloc == MatBytes(k + 1, B2N(compact_u) * (k + 1))
                   + MatBytes(rem + 1, B2N(compact_u) * (rem + 1))
        leaf == IF leaves
                THEN u_alloc + MatBytes(k + 1, k + 1) + MatBytes(rem + 1, rem + 1)
                ELSE 0
        prologue == 2 * ArrBytes(n, UsizeBytes) + ArrBytes(n, 2 * UnitBytes)
        um == MatBytes(n + 1, B2N(fill_u) * (n + 1))
        vm == MatBytes(n, B2N(has_v) * n)
        combined_u == IF compact_u
                      THEN (IF fill_u THEN MatBytes(2, n + 1) ELSE 0)
                      ELSE um
        afterMats == prologue + um + vm
        m1 == IF leaf > prologue + DeflateBytes(n) THEN leaf
              ELSE prologue + DeflateBytes(n)
        m2 == afterMats + SvdOfMBytes(n, n, n)
        m3 == afterMats + (IF ~compact_u /\ rayon /\ has_v
                           THEN MatBytes(n, n) + combined_u
                           ELSE IF vm > combined_u THEN vm ELSE combined_u)
        m12 == IF m1 > m2 THEN m1 ELSE m2
    IN IF leaves /\ LeafPanicsAtV(n, has_v) THEN u_alloc
       ELSE IF leaves /\ LeafPanicsAtU(n, two_rows, has_v) THEN leaf
       ELSE IF ~leaves /\ ImplPanics(n, two_rows, has_v, jacobi_fallback_threshold)
       THEN 0
       ELSE IF m12 > m3 THEN m12 ELSE m3

\* whether every allocation that bidiag_svd_impl makes on a problem of size
\* n, its recursive children included, fits in an arena of `avail` bytes;
\* without rayon the second call is made only when the first has returned
RECURSIVE ImplFits(_, _, _, _, _, _, _)
ImplFits(n, two_rows, fill_u, has_v, rayon, jacobi_fallback_threshold, avail) ==
    LET k == n \div 2
        rem == n - 1 - k
        recurse == ~(k <= jacobi_fallback_threshold \/ rem <= jacobi_fallback_threshold)
        stack1 == avail \div 2
        stack2 == avail - stack1
    IN /\ ImplOwnBytes(n, two_rows, fill_u, has_v, rayon,
                        jacobi_fallback_threshold) <= avail
       /\ recurse =>
            /\ ImplFits(k, two_rows, TRUE, has_v, rayon,
                        jacobi_fallback_threshold, stack1)
            /\ (rayon \/ ~ImplPanics(k, two_rows, has_v, jacobi_fallback_threshold))
                  => ImplFits(rem, two_rows, TRUE, has_v, rayon,
                              jacobi_fallback_threshold, stack2)

\* whether compute_bidiag_real_svd panics on an index on its Jacobi and
\* divide-and-conquer paths, no part of the problem being all zeros
SolverPanics(n, jacobi_fallback_threshold, has_u, has_v) ==
    /\ n > jacobi_fallback_threshold
    /\ ImplPanics(n, ~has_u, has_v, jacobi_fallback_threshold)

\* whether the allocations of compute_bidiag_real_svd on its Jacobi and
\* divide-and-conquer paths fit in `avail` bytes
SolverFits(n, jacobi_fallback_threshold, has_u, has_v, rayon, avail) ==
    IF n <= jacobi_fallback_threshold THEN MatBytes(n, n) <= avail
    ELSE IF has_u
         THEN ImplFits(n, FALSE, TRUE, has_v, rayon, jacobi_fallback_threshold, avail)
         ELSE /\ MatBytes(2, n + 1) <= avail
              /\ ImplFits(n, TRUE, FALSE, has_v, rayon, jacobi_fallback_threshold,
                          avail - MatBytes(2, n + 1))

----------------------------------------------------------------------------
(* The state.  Each specification below runs one part of the program, on    *)
(* its own variables, and leaves the variables of the other parts alone.    *)

\* the call of bidiag_real_svd_req and the replay of the allocations
VARIABLES rq_pc, rq_n, rq_jt, rq_u, rq_v, rq_par, rq_req, rq_fits

rq_vars == <<rq_pc, rq_n, rq_jt, rq_u, rq_v, rq_par, rq_req, rq_fits>>

\* the call of compute_bidiag_real_svd
VARIABLES pc, n, jacobi_fallback_threshold, bidiag_qr_fallback_threshold,
          diag, subdiag, u, v, diag_in, subdiag_in, entered,
          iter, max_iter, end, rots, run,
          start, qr_last, diag_pre, subdiag_pre,
          debug_assertions, u_tmp, dc

\* the state of bidiag_svd_impl: whether the build has debug assertions, the
\* 2 x (n+1) matrix that stands for u when the caller has none, and the
\* locals max_val, alpha, beta, perm, the saved rotations, um and vm
dc_vars == <<debug_assertions, u_tmp, dc>>

\* what the model keeps of the QR loop besides the program's own state: the
\* located start, the branch the last iteration took, and diag and subdiag as
\* the iteration in hand found them
qr_aux == <<start, qr_last, diag_pre, subdiag_pre>>

en_vars == <<pc, n, jacobi_fallback_threshold, bidiag_qr_fallback_threshold,
             diag, subdiag, u, v, diag_in, subdiag_in, entered,
             iter, max_iter, end, rots, run, qr_aux, dc_vars>>

\* compute_singular_values, one index at a time
VARIABLES sv_pc, sv_n, sv_diag, sv_col0, sv_k, sv_s, sv_shifts, sv_mus, sv_pre, sv_exit,
          sv_out

sv_vars == <<sv_pc, sv_n, sv_diag, sv_col0, sv_k, sv_s, sv_shifts, sv_mus, sv_pre, sv_exit,
            sv_out>>

\* the calls of bidiag_svd_impl that one call at the root gives rise to: the
\* size and thresholds at the root, the calls made so far with the parts of
\* diag, subdiag, u, v and of the arena each was handed, the locations each
\* has read or written, and the calls that went on before a child returned
VARIABLES jn_n, jn_jt, jn_calls, jn_touched, jn_early

jn_vars == <<jn_n, jn_jt, jn_calls, jn_touched, jn_early>>

\* the merge of one call of bidiag_svd_impl from deflate on: the size, what
\* was asked for (fill_u, compact_u, v.is_some(), parallelism), the two
\* thresholds of deflate, the record deflate works on (diag, col0, perm, the
\* rotations saved and their counts), a loop index, the factors u, v, um and
\* vm as the list of what was done to each, the scratch arena, and the two
\* updates: how far each is and the places each read and wrote
VARIABLES mg_pc, mg_n, mg_fill_u, mg_compact_u, mg_v_is_some, mg_parallelism,
          mg_eps, mg_ds, mg_i, mg_u, mg_v, mg_um, mg_vm, mg_arena, mg_join

mg_vars == <<mg_pc, mg_n, mg_fill_u, mg_compact_u, mg_v_is_some, mg_parallelism,
            mg_eps, mg_ds, mg_i, mg_u, mg_v, mg_um, mg_vm, mg_arena, mg_join>>

vars == <<rq_vars, en_vars, sv_vars, jn_vars, mg_vars>>
\* the variables that the actions of one part leave unchanged
rq_others == <<en_vars, sv_vars, jn_vars, mg_vars>>
en_others == <<rq_vars, sv_vars, jn_vars, mg_vars>>
sv_others == <<rq_vars, en_vars, jn_vars, mg_vars>>
jn_others == <<rq_vars, en_vars, sv_vars, mg_vars>>
mg_others == <<rq_vars, en_vars, sv_vars, jn_vars>>

----------------------------------------------------------------------------
(* Specification SpecReq: the sizing helper on drawn arguments, then the    *)
(* solver's allocations against an arena of the size it returned.           *)

\* largest problem size whose allocations are replayed
MaxReqN == 6
\* largest Jacobi threshold drawn
MaxJacobiThreshold == 2

\* the sizes drawn: the small ones, and the ones at the top of usize
ReqSizes == (0 .. MaxReqN) \cup {UsizeMax - i : i \in 0 .. 2}
            \cup {Pow2(i) : i \in 0 .. UsizeBits - 1}
            \cup {Pow2(i) - 1 : i \in 0 .. UsizeBits - 1}

ReqInit ==
    /\ rq_pc = "call"
    /\ rq_n \in ReqSizes
    /\ rq_jt \in 0 .. MaxJacobiThreshold
    /\ rq_u \in BOOLEAN
    /\ rq_v \in BOOLEAN
    /\ rq_par \in BOOLEAN
    /\ rq_req = 0
    /\ rq_fits = TRUE

\* bidiag_real_svd_req(n, jacobi_fallback_threshold, compute_u, compute_v, par)
ReqCall ==
    /\ rq_pc = "call"
    /\ rq_req' = BidiagRealSvdReq(rq_n, rq_jt, rq_u, rq_v)
    /\ rq_pc' = "sized"
    /\ UNCHANGED <<rq_n, rq_jt, rq_u, rq_v, rq_par, rq_fits>>
    /\ UNCHANGED rq_others

\* compute_bidiag_real_svd on its Jacobi or divide-and-conquer path
\* (bidiag_qr_fallback_threshold = 0) with an arena of the returned size, on
\* a problem of which no part is all zeros: the call runs to its end or to
\* the panic of a leaf without entries, and rq_fits tells whether every
\* allocation made on the way fitted
ReqSolve ==
    /\ rq_pc = "sized"
    /\ rq_req # SizeOverflow
    /\ rq_n <= MaxReqN
    /\ rq_fits' = SolverFits(rq_n, rq_jt, rq_u, rq_v, rq_par, rq_req)
    /\ rq_pc' = IF SolverPanics(rq_n, rq_jt, rq_u, rq_v)
              THEN "panicked" ELSE "solved"
    /\ UNCHANGED <<rq_n, rq_jt, rq_u, rq_v, rq_par, rq_req>>
    /\ UNCHANGED rq_others

ReqNext == ReqCall \/ ReqSolve


\* C4: an arena of the size bidiag_real_svd_req returns holds every scratch
\* allocation of compute_bidiag_real_svd, recursive children included
ReqNeverUnderestimates == rq_pc \in {"solved", "panicked"} => rq_fits

\* C5: bidiag_real_svd_req returns SizeOverflow exactly when the requirement
\* does not fit in usize, and otherwise the requirement itself, never a value
\* wrapped modulo 2^UsizeBits
ReqOverflowReported ==
    rq_pc = "sized" =>
        LET exact == ExactReq(rq_n, rq_jt, rq_u, rq_v)
        IN IF exact > UsizeMax THEN rq_req = SizeOverflow ELSE rq_req = exact
\* C5 witness: an argument for which the wrapped sum would have fitted
ReqOverflowWitness ==
    /\ rq_pc = "sized"
    /\ rq_req = SizeOverflow
    /\ rq_n = UsizeMax
    /\ BidiagRealSvdReqWrapped(rq_n, rq_jt, rq_u, rq_v) <= UsizeMax

ReqIdle ==
    /\ rq_pc = "idle" /\ rq_n = 0 /\ rq_jt = 0 /\ rq_u = FALSE /\ rq_v = FALSE
    /\ rq_par = FALSE /\ rq_req = 0 /\ rq_fits = TRUE

----------------------------------------------------------------------------
(* compute_bidiag_real_svd: the caller's call, the routing, and the three   *)
(* backends.                                                                *)

\* largest n of the inputs
MaxN == 3
\* the values the entries of the caller's diag and subdiag are drawn from
DiagVals == {FZero, FOne, FInt(-2), FInt(3)}
\* the entries of diag that the divide and conquer calls are drawn from
DcDiagVals == {FZero, FOne, FInt(-2)}
SubdiagVals == {FZero, FOne}
\* the caller's consider_zero_threshold: the smallest positive normal double
NearZero == FDyad(1, -1022)
\* the orders at which the model has the result of jacobi_svd
JacobiOrders == {0, 1}
\* the order at which the model has divide and conquer: k = rem = 1, the two
\* halves being leaves handed to jacobi_svd
DcOrder == 3
\* the signs that the vectors of the two calls of jacobi_svd come out with
DcSigns == {<<a, ~a, ~a, a>> : a \in BOOLEAN}

DcLocals ==
    [max_val |-> FZero, alpha |-> FZero, beta |-> FZero, perm |-> <<>>,
     coeffs |-> <<>>, indices |-> <<>>, jacobi_0i |-> 0, jacobi_ij |-> 0,
     um |-> None, vm |-> None]

\* an input that the QR loop does not converge on: a subdiag of NaN, drawn
\* at order two next to a diag of ones
NotANumberInput(nn, d) ==
    IF nn = 2 /\ d = [i \in 0 .. nn - 1 |-> FOne]
    THEN {[i \in 0 .. nn - 1 |-> FNaN]} ELSE {}

\* a finite input whose squares overflow: both diagonal entries and the one
\* entry under them at 2^LargeExp, the last row zero, drawn at order two
LargeExp == 600
LargeInput(nn) ==
    IF nn = 2
    THEN {[d |-> [i \in 0 .. 1 |-> FDyad(1, LargeExp)],
           e |-> [i \in 0 .. 1 |-> IF i = 0 THEN FDyad(1, LargeExp) ELSE FZero]]}
    ELSE {}

\* the if / else if / else of compute_bidiag_real_svd
BackendQrFirst(nn, jt, qt) ==
    IF nn <= qt THEN "qr" ELSE IF nn <= jt THEN "jacobi" ELSE "dc"
Backend(nn, jt, qt) ==
    IF nn <= jt THEN "jacobi" ELSE IF nn <= qt THEN "qr" ELSE "dc"

\* jacobi_svd(s, u, v, Skip::None) on a matrix of order at most one: the
\* singular value is |s[0,0]|, and the sign goes to u or to v.  jacobi_svd
\* is code of faer-core, not of this file: what it returns is taken from its
\* contract, and at these orders only
JacobiSvd(s, nn, sign_in_u) ==
    IF nn = 0 THEN [s |-> s, u |-> <<>>, v |-> <<>>]
    ELSE LET a == s[<<0, 0>>]
             sg == IF FLt(a, FZero) THEN FNeg(FOne) ELSE FOne
         IN [s |-> MatOf(1, 1, LAMBDA i, j : FAbs(a)),
             u |-> MatOf(1, 1, LAMBDA i, j : IF sign_in_u THEN sg ELSE FOne),
             v |-> MatOf(1, 1, LAMBDA i, j : IF sign_in_u THEN FOne ELSE sg)]

\* the Jacobi branch of compute_bidiag_real_svd
EntryJacobi(d, e, uu, vv, nn, sign_in_u) ==
    LET Copy(r) ==
            [d |-> [i \in DOMAIN d |-> r.s[<<i, i>>]],
             e |-> e,
             u |-> IF uu = None THEN None
                   ELSE [p \in DOMAIN uu |->
                           IF p[1] = nn /\ p[2] = nn THEN FOne
                           ELSE IF p[1] = nn \/ p[2] = nn THEN FZero
                           ELSE r.u[p]],
             v |-> IF vv = None THEN None ELSE [p \in DOMAIN vv |-> r.v[p]]]
    IN Copy(JacobiSvd(MatOf(nn, nn, LAMBDA i, j :
                                IF i = j THEN d[i]
                                ELSE IF i = j + 1 THEN e[j] ELSE FZero),
                      nn, sign_in_u))

EntryInit ==
    /\ pc = "entry"
    /\ n \in 0 .. MaxN
    /\ jacobi_fallback_threshold \in {0, 1}
    /\ bidiag_qr_fallback_threshold \in {0, MaxN}
    /\ LET b == Backend(n, jacobi_fallback_threshold, bidiag_qr_fallback_threshold)
       IN /\ b = "jacobi" => n \in JacobiOrders
          /\ b = "dc" => (n = DcOrder /\ jacobi_fallback_threshold = 1)
    /\ \/ /\ diag \in [0 .. n - 1 ->
                         IF Backend(n, jacobi_fallback_threshold,
                                    bidiag_qr_fallback_threshold) = "dc"
                         THEN DcDiagVals ELSE DiagVals]
          /\ subdiag \in [0 .. n - 1 -> SubdiagVals] \cup NotANumberInput(n, diag)
       \/ /\ Backend(n, jacobi_fallback_threshold,
                     bidiag_qr_fallback_threshold) = "qr"
          /\ \E b \in LargeInput(n) : diag = b.d /\ subdiag = b.e
    /\ \E want \in BOOLEAN :
         /\ u = IF want THEN MatOf(n + 1, n + 1, LAMBDA i, j : FNaN) ELSE None
         /\ v = IF want THEN MatOf(n, n, LAMBDA i, j : FNaN) ELSE None
         /\ debug_assertions \in
               (IF want /\ Backend(n, jacobi_fallback_threshold,
                                   bidiag_qr_fallback_threshold) = "dc"
                THEN BOOLEAN ELSE {FALSE})
    /\ diag_in = diag
    /\ subdiag_in = subdiag
    /\ entered = {}
    /\ iter = 0
    /\ max_iter = 0
    /\ end = n
    /\ rots = 0
    /\ run = 1
    /\ start = 0
    /\ qr_last = "none"
    /\ diag_pre = diag
    /\ subdiag_pre = subdiag
    /\ u_tmp = None
    /\ dc = DcLocals

EntryIdle ==
    /\ pc = "idle" /\ n = 0
    /\ jacobi_fallback_threshold = 0 /\ bidiag_qr_fallback_threshold = 0
    /\ diag = <<>> /\ subdiag = <<>> /\ u = None /\ v = None
    /\ diag_in = <<>> /\ subdiag_in = <<>> /\ entered = {}
    /\ iter = 0 /\ max_iter = 0 /\ end = 0 /\ rots = 0 /\ run = 1
    /\ start = 0 /\ qr_last = "none" /\ diag_pre = <<>> /\ subdiag_pre = <<>>
    /\ debug_assertions = FALSE /\ u_tmp = None /\ dc = DcLocals

\* the branch taken by compute_bidiag_real_svd
Route ==
    /\ pc = "entry"
    /\ pc' = Backend(n, jacobi_fallback_threshold, bidiag_qr_fallback_threshold)
    /\ UNCHANGED <<n, jacobi_fallback_threshold, bidiag_qr_fallback_threshold,
                   diag, subdiag, u, v, diag_in, subdiag_in, entered,
                   iter, max_iter, end, rots, run>>
    /\ UNCHANGED dc_vars
    /\ UNCHANGED qr_aux
    /\ UNCHANGED en_others

\* the Jacobi branch, from temp_mat_zeroed to the last write to u
JacobiRun ==
    /\ pc = "jacobi"
    /\ \E sign_in_u \in BOOLEAN :
         \E r \in {EntryJacobi(diag, subdiag, u, v, n, sign_in_u)} :
            /\ diag' = r.d
            /\ u' = r.u
            /\ v' = r.v
    /\ entered' = entered \cup {"jacobi"}
    /\ pc' = "done"
    /\ UNCHANGED <<n, jacobi_fallback_threshold, bidiag_qr_fallback_threshold,
                   subdiag, diag_in, subdiag_in, iter, max_iter, end, rots, run>>
    /\ UNCHANGED dc_vars
    /\ UNCHANGED qr_aux
    /\ UNCHANGED en_others

\* bidiag_svd_qr_algorithm_impl up to its loop
QRBegin ==
    /\ pc = "qr"
    /\ \E st \in {QRStart(diag, subdiag, u, v)} :
          /\ diag' = st.d
          /\ subdiag' = st.e
          /\ u' = st.u
          /\ v' = st.v
          /\ diag_pre' = st.d
          /\ subdiag_pre' = st.e
    /\ max_iter' = QRMaxIter(n)
    /\ iter' = 0
    /\ rots' = 0
    /\ end' = n
    /\ start' = 0
    /\ qr_last' = "none"
    /\ entered' = entered \cup {"qr"}
    /\ pc' = "qr_loop"
    /\ UNCHANGED <<n, jacobi_fallback_threshold, bidiag_qr_fallback_threshold,
                   diag_in, subdiag_in, run>>
    /\ UNCHANGED dc_vars
    /\ UNCHANGED en_others

\* an iteration of `for iter in 0..max_iter` begins: the two loops that set
\* negligible entries of subdiag and of diag to zero
QRDeflate ==
    /\ pc = "qr_loop"
    /\ iter < max_iter
    /\ subdiag' = QRDeflateSubdiag(n, diag, subdiag, QREpsilon(Epsilon))
    /\ diag' = QRSnapDiag(diag, QREpsilon(Epsilon))
    /\ diag_pre' = diag
    /\ subdiag_pre' = subdiag
    /\ pc' = "qr_deflated"
    /\ UNCHANGED <<n, jacobi_fallback_threshold, bidiag_qr_fallback_threshold,
                   u, v, diag_in, subdiag_in, entered, iter, max_iter, end,
                   rots, run, start, qr_last>>
    /\ UNCHANGED dc_vars
    /\ UNCHANGED en_others

\* end and start are located; the loop is left when end is 1
QRLocate ==
    /\ pc = "qr_deflated"
    /\ \E e \in {QRFindEnd(subdiag, n, NearZero)} :
          /\ end' = e
          /\ IF QRLoopBreaks(e)
             THEN pc' = "qr_after" /\ start' = start
             ELSE pc' = "qr_block" /\ start' = QRFindStart(subdiag, e - 1)
    /\ UNCHANGED <<n, jacobi_fallback_threshold, bidiag_qr_fallback_threshold,
                   diag, subdiag, u, v, diag_in, subdiag_in, entered, iter,
                   max_iter, rots, run, qr_last, diag_pre, subdiag_pre>>
    /\ UNCHANGED dc_vars
    /\ UNCHANGED en_others

\* the rest of the iteration: the chase of the zeros of diag[start..end-1]
\* and, when there was none, the shifted chase
QRStep ==
    /\ pc = "qr_block"
    /\ \E ch \in {QRChaseZero([st |-> [d |-> diag, e |-> subdiag, u |-> u,
                                       v |-> v, rots |-> rots],
                               found |-> FALSE], start, end, n)} :
         \E st \in {IF ch.found THEN ch.st
                    ELSE QRShiftedChase(ch.st, n, start, end, NearZero)} :
            /\ diag' = st.d
            /\ subdiag' = st.e
            /\ u' = st.u
            /\ v' = st.v
            /\ rots' = st.rots
            /\ qr_last' = IF ch.found THEN "chase" ELSE "bulge"
    /\ iter' = iter + 1
    /\ pc' = "qr_loop"
    /\ UNCHANGED <<n, jacobi_fallback_threshold, bidiag_qr_fallback_threshold,
                   diag_in, subdiag_in, entered, max_iter, end, run, start,
                   diag_pre, subdiag_pre>>
    /\ UNCHANGED dc_vars
    /\ UNCHANGED en_others

\* the loop runs out of iterations
QRExhaust ==
    /\ pc = "qr_loop"
    /\ iter >= max_iter
    /\ pc' = "qr_after"
    /\ UNCHANGED <<n, jacobi_fallback_threshold, bidiag_qr_fallback_threshold,
                   diag, subdiag, u, v, diag_in, subdiag_in, entered,
                   iter, max_iter, end, rots, run>>
    /\ UNCHANGED dc_vars
    /\ UNCHANGED qr_aux
    /\ UNCHANGED en_others

\* bidiag_svd_qr_algorithm_impl after its loop
QREnd ==
    /\ pc = "qr_after"
    /\ \E st \in {QRFinish([d |-> diag, e |-> subdiag, u |-> u, v |-> v,
                            rots |-> rots], n, QRMaxVal(diag_in, subdiag_in))} :
          /\ diag' = st.d
          /\ u' = st.u
          /\ v' = st.v
    /\ pc' = "done"
    /\ UNCHANGED <<n, jacobi_fallback_threshold, bidiag_qr_fallback_threshold,
                   subdiag, diag_in, subdiag_in, entered, iter, max_iter, end,
                   rots, run>>
    /\ UNCHANGED dc_vars
    /\ UNCHANGED qr_aux
    /\ UNCHANGED en_others

\* the caller runs the solver again on the output of the QR path: the
\* returned diag as the new diag, a zero subdiag, the same u and v
Rerun ==
    /\ pc = "done"
    /\ run = 1
    /\ entered = {"qr"}
    /\ diag_in' = diag
    /\ subdiag' = [i \in DOMAIN subdiag |-> FZero]
    /\ subdiag_in' = subdiag'
    /\ entered' = {}
    /\ iter' = 0
    /\ rots' = 0
    /\ run' = 2
    /\ pc' = "entry"
    /\ UNCHANGED <<n, jacobi_fallback_threshold, bidiag_qr_fallback_threshold,
                   diag, u, v, max_iter, end>>
    /\ UNCHANGED dc_vars
    /\ UNCHANGED qr_aux
    /\ UNCHANGED en_others

\* the divide and conquer branch of compute_bidiag_real_svd and
\* bidiag_svd_impl up to `let compact_u`: with no u a temporary takes its
\* place; a problem that is all zeros returns at once, another is divided
\* by its largest absolute value
DCBegin ==
    /\ pc = "dc"
    /\ LET max_val == MaxAbs(diag, subdiag)
           rows == IF u = None THEN 2 ELSE n + 1
           zero_u == MatOf(rows, n + 1, LAMBDA i, j :
                         IF u # None THEN (IF i = j THEN FOne ELSE FZero)
                         ELSE IF <<i, j>> \in {<<0, 0>>, <<1, n>>} THEN FOne
                         ELSE FZero)
           mid == n \div 2
       IN IF FEq(max_val, FZero)
          THEN /\ u' = IF u = None THEN None ELSE zero_u
               /\ u_tmp' = None
               /\ v' = IF v = None THEN None ELSE Identity(n, n)
               /\ dc' = [dc EXCEPT !.max_val = max_val]
               /\ pc' = "done"
               /\ UNCHANGED <<diag, subdiag>>
          ELSE /\ diag' = [i \in DOMAIN diag |-> FDiv(diag[i], max_val)]
               /\ subdiag' = [i \in DOMAIN subdiag |-> FDiv(subdiag[i], max_val)]
               /\ u_tmp' = IF u = None THEN MatOf(2, n + 1, LAMBDA i, j : FNaN)
                           ELSE None
               /\ dc' = [dc EXCEPT !.max_val = max_val,
                                   !.alpha = diag'[mid], !.beta = subdiag'[mid]]
               /\ pc' = IF n > jacobi_fallback_threshold THEN "dc_leaves"
                        ELSE "panicked"
               /\ UNCHANGED <<u, v>>
    /\ entered' = entered \cup {"dc"}
    /\ UNCHANGED <<n, jacobi_fallback_threshold, bidiag_qr_fallback_threshold,
                   diag_in, subdiag_in, iter, max_iter, end, rots, run,
                   debug_assertions>>
    /\ UNCHANGED qr_aux
    /\ UNCHANGED en_others

\* the two leaves: jacobi_svd on each half, and the copies after them
DCLeaves ==
    /\ pc = "dc_leaves"
    /\ \E negs \in DcSigns :
         \E lf \in {DcLeaves(IF u = None THEN u_tmp ELSE u, v, diag, subdiag,
                             n \div 2, n - 1 - n \div 2, IF u = None THEN 1 ELSE 0,
                             negs, debug_assertions)} :
            /\ diag' = lf.d
            /\ u' = IF u = None THEN None ELSE lf.u
            /\ u_tmp' = IF u = None THEN lf.u ELSE None
            /\ v' = lf.v
    /\ pc' = "dc_merge"
    /\ UNCHANGED <<n, jacobi_fallback_threshold, bidiag_qr_fallback_threshold,
                   subdiag, diag_in, subdiag_in, entered, iter, max_iter, end,
                   rots, run, debug_assertions, dc>>
    /\ UNCHANGED qr_aux
    /\ UNCHANGED en_others

\* the row that joins the two halves: r0, col0 and the rotation of the two
\* outer columns of u
DCMergeRow ==
    /\ pc = "dc_merge"
    /\ \E mg \in {DcMergeRow(IF u = None THEN u_tmp ELSE u, v, diag, subdiag,
                             dc.alpha, dc.beta, n \div 2, n - 1 - n \div 2,
                             IF u = None THEN 1 ELSE 0, debug_assertions)} :
          /\ diag' = mg.d
          /\ subdiag' = mg.col0
          /\ u' = IF u = None THEN None ELSE mg.u
          /\ u_tmp' = IF u = None THEN mg.u ELSE None
          /\ v' = mg.v
    /\ pc' = "dc_deflate"
    /\ UNCHANGED <<n, jacobi_fallback_threshold, bidiag_qr_fallback_threshold,
                   diag_in, subdiag_in, entered, iter, max_iter, end, rots, run,
                   debug_assertions, dc>>
    /\ UNCHANGED qr_aux
    /\ UNCHANGED en_others

\* the call of deflate
DCDeflate ==
    /\ pc = "dc_deflate"
    /\ \E df \in {Deflate(diag, subdiag, n \div 2, n, Epsilon, NearZero)} :
          /\ diag' = df.d
          /\ subdiag' = df.col0
          /\ dc' = [dc EXCEPT !.perm = df.perm, !.coeffs = df.coeffs,
                              !.indices = df.indices,
                              !.jacobi_0i = df.jacobi_0i,
                              !.jacobi_ij = df.jacobi_ij]
    /\ pc' = "dc_svd_of_m"
    /\ UNCHANGED <<n, jacobi_fallback_threshold, bidiag_qr_fallback_threshold,
                   u, v, diag_in, subdiag_in, entered, iter, max_iter, end, rots,
                   run, debug_assertions, u_tmp>>
    /\ UNCHANGED qr_aux
    /\ UNCHANGED en_others

\* the call of compute_svd_of_m on the zeroed um and vm
DCSvdOfM ==
    /\ pc = "dc_svd_of_m"
    /\ \E sm \in {ComputeSvdOfM(u # None, v # None, diag, subdiag, dc.perm, n,
                                Epsilon)} :
          /\ diag' = sm.d
          /\ dc' = [dc EXCEPT !.um = sm.um, !.vm = sm.vm]
          /\ pc' = IF sm.panic THEN "panicked" ELSE "dc_update"
    /\ UNCHANGED <<n, jacobi_fallback_threshold, bidiag_qr_fallback_threshold,
                   subdiag, u, v, diag_in, subdiag_in, entered, iter, max_iter,
                   end, rots, run, debug_assertions, u_tmp>>
    /\ UNCHANGED qr_aux
    /\ UNCHANGED en_others

\* the saved rotations applied to um and vm, update_v and update_u, and the
\* singular values multiplied by max_val
DCUpdate ==
    /\ pc = "dc_update"
    /\ \E um \in {ApplyRotationsij(ApplyRotations0i(dc.um, dc, dc.jacobi_0i - 1),
                                   dc, dc.jacobi_0i + dc.jacobi_ij - 1, n)},
          vm \in {ApplyRotationsij(dc.vm, dc, dc.jacobi_0i + dc.jacobi_ij - 1, n)} :
          /\ v' = UpdateV(v, vm, n \div 2, n - 1 - n \div 2)
          /\ u' = IF u = None THEN None
                  ELSE UpdateU(u, um, n \div 2, n - 1 - n \div 2)
          /\ dc' = [dc EXCEPT !.um = um, !.vm = vm]
    /\ u_tmp' = None
    /\ diag' = [i \in DOMAIN diag |-> FMul(diag[i], dc.max_val)]
    /\ pc' = "done"
    /\ UNCHANGED <<n, jacobi_fallback_threshold, bidiag_qr_fallback_threshold,
                   subdiag, diag_in, subdiag_in, entered, iter, max_iter, end,
                   rots, run, debug_assertions>>
    /\ UNCHANGED qr_aux
    /\ UNCHANGED en_others

EntryNext ==
    \/ Route \/ JacobiRun
    \/ QRBegin \/ QRDeflate \/ QRLocate \/ QRStep \/ QRExhaust \/ QREnd
    \/ Rerun
    \/ DCBegin \/ DCLeaves \/ DCMergeRow \/ DCDeflate \/ DCSvdOfM \/ DCUpdate

----------------------------------------------------------------------------
(* Properties of a call of compute_bidiag_real_svd                          *)

\* a valid input has no NaN and no infinity
ValidInput(d, e) ==
    (\A i \in DOMAIN d : IsFinite(d[i])) /\ (\A i \in DOMAIN e : IsFinite(e[i]))
\* the last row of the caller's (n + 1) by n matrix is zero: subdiag[n-1]
LastRowZero == n = 0 \/ subdiag_in[n - 1] = FZero
\* no entry of d is NaN
NoNaN(d) == \A i \in DOMAIN d : ~IsNaN(d[i])
SortedNonIncreasing(d, nn) ==
    /\ \A i \in 0 .. nn - 1 : FGe(d[i], FZero)
    /\ \A i \in 0 .. nn - 2 : FGe(d[i], d[i + 1])

\* C1: when compute_bidiag_real_svd has returned, on whichever path and
\* for every finite input with a zero last row, every entry of diag is
\* non-negative and diag is in non-increasing order
OutputSortedNonNegative ==
    (pc = "done" /\ ValidInput(diag_in, subdiag_in) /\ LastRowZero)
       => SortedNonIncreasing(diag, n)

\* C2: the backend is chosen by n alone: Jacobi when n is at most the Jacobi
\* threshold, else QR when n is at most the QR threshold, else divide and
\* conquer; exactly one backend is entered
RoutedByN ==
    pc = "done" =>
        entered = {IF n <= jacobi_fallback_threshold THEN "jacobi"
                   ELSE IF n <= bidiag_qr_fallback_threshold THEN "qr"
                   ELSE "dc"}
\* C2 witness: a call below both thresholds has returned from Jacobi
RoutedWitness ==
    /\ pc = "done" /\ n = 1 /\ jacobi_fallback_threshold = 1
    /\ bidiag_qr_fallback_threshold = MaxN /\ entered = {"jacobi"}

\* entry (i, j) of u * sigma * v^T, sigma the (n+1) x n matrix of diag
RECURSIVE Reconstructed(_, _, _, _, _, _, _)
Reconstructed(uu, d, vv, i, j, k, acc) ==
    IF k \notin DOMAIN d THEN acc
    ELSE Reconstructed(uu, d, vv, i, j, k + 1,
            FAdd(acc, FMul(FMul(uu[<<i, k>>], d[k]), vv[<<j, k>>])))
\* entry (i, j) of the lower bidiagonal matrix of d and e
Bidiag(d, e, i, j) == IF i = j THEN d[j] ELSE IF i = j + 1 THEN e[j] ELSE FZero
\* the tolerance of the comparison: eight times the epsilon of the QR loop
ReconTol == FMul(QREpsilon(Epsilon), FInt(8))
ReconstructsWithin(uu, d, vv, d0, e0, nn, tol) ==
    \A i \in 0 .. nn : \A j \in 0 .. nn - 1 :
        FLe(FAbs(FSub(Reconstructed(uu, d, vv, i, j, 0, FZero),
                      Bidiag(d0, e0, i, j))), tol)

\* C3: with U and V requested, u * sigma * v^T of the outputs equals the
\* input bidiagonal matrix entrywise within the tolerance
ReconstructsInput ==
    (pc = "done" /\ u # None /\ v # None) =>
        ReconstructsWithin(u, diag, v, diag_in, subdiag_in, n, ReconTol)

\* C6: the QR loop makes at most 30 * n * n iterations, saturating, and is
\* left as soon as the located end is 1
QRLoopBounded ==
    /\ pc \in {"qr_loop", "qr_after"} =>
          iter <= (IF QRSweepFactor * n * n > UsizeMax THEN UsizeMax
                   ELSE QRSweepFactor * n * n)
    /\ (pc = "qr_loop" /\ iter > 0) => end # 1
    /\ pc = "qr_block" => end # 1
    /\ pc = "qr_after" => (end = 1 \/ iter = max_iter)
\* C6 witness: the loop was left at end = 1 after several iterations
QRLoopWitness == pc = "qr_after" /\ end = 1 /\ iter >= 3 /\ iter < max_iter

IsPermutationOfIdentity(m, size) ==
    /\ \A p \in DOMAIN m : m[p] \in {FZero, FOne}
    /\ \A i \in 0 .. size - 1 :
          /\ Cardinality({j \in 0 .. size - 1 : m[<<i, j>>] = FOne}) = 1
          /\ Cardinality({j \in 0 .. size - 1 : m[<<j, i>>] = FOne}) = 1

\* C7: the QR path run on its own output, with a zero subdiag, returns the
\* same diag, makes no rotation, and leaves u and v permutations of the
\* identity
QRIdempotent ==
    (pc = "done" /\ run = 2) =>
        /\ diag = diag_in
        /\ rots = 0
        /\ u # None => IsPermutationOfIdentity(u, n + 1)
        /\ v # None => IsPermutationOfIdentity(v, n)
\* C7 witness: a second run has returned, after a first run that rotated
\* u and v
QRIdempotentWitness ==
    /\ pc = "done" /\ run = 2 /\ n = MaxN /\ u # None /\ v # None
    /\ \E i \in 0 .. n - 1 : FGt(diag[i], FZero) /\ diag[i] \notin DiagVals

\* the test that sets subdiag[i] to zero, for a threshold eps
NegligibleSubdiag(d, e, i, eps) ==
    \/ FLe(FAbs(e[i]), FMul(eps, FAdd(FAbs(d[i]), FAbs(d[i + 1]))))
    \/ FLe(FAbs(e[i]), eps)
\* diag and subdiag are what the iteration found, with exactly the entries
\* that are negligible at the threshold eps set to zero
DeflatedExactlyWhen(eps) ==
    /\ \A i \in 0 .. n - 2 :
          subdiag[i] = IF NegligibleSubdiag(diag_pre, subdiag_pre, i, eps)
                       THEN FZero ELSE subdiag_pre[i]
    /\ \A i \in 0 .. n - 1 :
          diag[i] = IF FLe(FAbs(diag_pre[i]), eps) THEN FZero ELSE diag_pre[i]

\* C11 as stated: in each iteration of the QR loop subdiag[i] and diag[i] are
\* set to zero exactly when they are negligible at the caller's epsilon
DeflatesAtCallerEpsilon ==
    pc = "qr_deflated" => DeflatedExactlyWhen(Epsilon)
\* C11 amended: in each iteration of the QR loop subdiag[i] and diag[i] are
\* set to zero exactly when they are negligible at 128 times the caller's
\* epsilon
DeflatesAtScaledEpsilon ==
    pc = "qr_deflated" => DeflatedExactlyWhen(FMul(Epsilon, FInt(128)))
\* C11 witness: an entry of subdiag was set to zero that is not negligible
\* at the caller's epsilon
DeflatesAtScaledWitness ==
    /\ pc = "qr_deflated"
    /\ \E i \in 0 .. n - 2 :
          /\ subdiag[i] = FZero
          /\ subdiag_pre[i] # FZero
          /\ ~NegligibleSubdiag(diag_pre, subdiag_pre, i, Epsilon)

\* the block [start, end) is unreduced and maximal, and every subdiag[i]
\* with end - 1 <= i <= last is at most sqrt(near_zero) in magnitude
ActiveBlock(last) ==
    /\ 0 <= start /\ start < end - 1 /\ end - 1 < n
    /\ FGt(FAbs(subdiag[end - 2]), FSqrt(NearZero))
    /\ \A i \in start .. end - 2 : FNe(subdiag[i], FZero)
    /\ start = 0 \/ FEq(subdiag[start - 1], FZero)
    /\ \A i \in end - 1 .. last : FLe(FAbs(subdiag[i]), FSqrt(NearZero))

ZeroDiagonals == {i \in start .. end - 2 : FEq(diag[i], FZero)}

\* C13: an iteration that finds a zero diag[i] in [start, end-1) leaves
\* subdiag[i] zero, leaves u as it was (the rotations of the chase go to the
\* columns of v only), makes no shifted chase, and goes back to the head of
\* the loop
ZeroChaseLeavesU ==
    [][(pc = "qr_block" /\ ZeroDiagonals # {}) =>
          /\ u' = u
          /\ \A i \in ZeroDiagonals : subdiag'[i] = FZero
          /\ qr_last' = "chase"
          /\ rots' <= rots + ((end - 1 - start) * (end - start)) \div 2
          /\ pc' = "qr_loop" /\ iter' = iter + 1]_vars
\* C13 witness: the first iteration was a chase that rotated v and left u
\* the identity
ZeroChaseWitness ==
    /\ pc = "qr_loop" /\ qr_last = "chase" /\ iter = 1 /\ rots > 0
    /\ u # None /\ u = Identity(n + 1, n + 1)
    /\ v # None /\ v # Identity(n, n)

\* the orders in which the sort can leave n columns
ColumnOrders(nn) ==
    {f \in [0 .. nn - 1 -> 0 .. nn - 1] : \A i, j \in 0 .. nn - 1 : f[i] = f[j] => i = j}
\* column j of the first nn rows of m
Column(m, j, nn) == [i \in 0 .. nn - 1 |-> m[<<i, j>>]]
\* x, negated when it is negative
Flipped(x) == IF FLt(x, FZero) THEN FNeg(x) ELSE x

AllZeroInput ==
    /\ \A i \in DOMAIN diag_in : diag_in[i] = FZero
    /\ \A i \in DOMAIN subdiag_in : subdiag_in[i] = FZero

\* C15: on the QR path the divisor is one, so the loop starts from the
\* caller's diag and subdiag as they are, with u and v the identity, and the
\* values returned are not rescaled; an input that is all zeros takes the
\* same way to the end, and returns zeros with u and v the identity
QRScalingIsNoOp ==
    /\ (pc = "qr_loop" /\ iter = 0) =>
          /\ diag = diag_in /\ subdiag = subdiag_in
          /\ u # None => u = Identity(n + 1, n + 1)
          /\ v # None => v = Identity(n, n)
    /\ (pc = "done" /\ entered = {"qr"} /\ iter = 0) =>
          \E f \in ColumnOrders(n) :
             \A j \in 0 .. n - 1 : diag[j] = Flipped(diag_in[f[j]])
    /\ (pc = "done" /\ entered = {"qr"} /\ AllZeroInput) =>
          /\ diag = diag_in
          /\ max_iter = QRMaxIter(n) /\ (n > 0 => end = 1)
          /\ u # None => u = Identity(n + 1, n + 1)
          /\ v # None => v = Identity(n, n)
\* C15 witness: an input of order MaxN that is all zeros has gone through
\* the QR path to its end
QRScalingWitness ==
    /\ pc = "done" /\ entered = {"qr"} /\ run = 1 /\ n = MaxN /\ AllZeroInput
    /\ u = Identity(n + 1, n + 1) /\ v = Identity(n, n)

\* C20: when deflate has returned, col0[0] = diag[0] and diag[0] is at least
\* |col0[i]| for every i >= 1 (col0 is kept in subdiag).
DeflatedHead ==
    pc = "dc_svd_of_m" =>
       /\ subdiag[0] = diag[0]
       /\ \A i \in 1 .. n - 1 : FGe(diag[0], FAbs(subdiag[i]))
\* C20, its first half: when deflate has returned, col0[0] = diag[0]
DeflatedHeadEqual == pc = "dc_svd_of_m" => subdiag[0] = diag[0]
\* deflate has returned after a rotation of condition 4.3, and an entry of
\* col0 is larger than diag[0]
DeflatedHeadWitness ==
    /\ pc = "dc_svd_of_m"
    /\ dc.jacobi_0i > 0
    /\ \E i \in 1 .. n - 1 : FLt(diag[0], FAbs(subdiag[i]))

\* C9: when a backend is entered, diag and subdiag have been divided by
\* their largest absolute value
NormalizedAtEntry ==
    pc \in {"jacobi", "qr", "dc"} => MaxAbs(diag, subdiag) \in {FZero, FOne}

----------------------------------------------------------------------------
(* compute_singular_values on a deflated problem, one index at a time.      *)

MaxSecN == 4

\* the entries of diag[1..] and of col0 of the merge rows that the problems
\* are what deflate leaves of
SecDiagVals == {FDyad(1, -2), FOne}
SecCol0Vals == {FZero, FDyad(1, -1), FInt(-1), FDyad(1, -3)}

\* what the merge row of a finite matrix leaves: diag[0] = col0[0] = r0, a
\* square root, and the two halves of diag as the children sorted them.  The
\* largest entry of the normalised matrix is one: it is a singular value of
\* a child at the least, or the squares of col0 add up to it, so that nn
\* times the square of the largest entry m of the row is one or more, and
\* not under a half once every step has been rounded
MergedRow(d, c, nn) ==
    /\ c[0] = d[0] /\ FGe(d[0], FZero)
    /\ \A i \in 1 .. nn \div 2 - 1 : FGe(d[i], d[i + 1])
    /\ \A i \in nn \div 2 + 1 .. nn - 2 : FGe(d[i], d[i + 1])
    /\ \E m \in {FMax(MaxAbsFrom(d, 1, FZero), MaxAbsFrom(c, 0, FZero))} :
          FGe(FMul(FInt(2 * nn), FMul(m, m)), FOne)

\* the call of deflate on the diag and col0 of a merge row of order nn, under
\* the thresholds that deflate computes from the two on entry
DeflatedProblem(d, col0, nn) ==
    Deflate(d, col0, nn \div 2, nn, Epsilon, NearZero)

\* compute_singular_values as compute_svd_of_m calls it: on what deflate
\* left of a merge row, after `diag[0] = E::faer_zero()`
SecInit ==
    /\ sv_pc = "solving"
    /\ sv_n \in 2 .. MaxSecN
    /\ \E r \in [1 .. sv_n - 1 -> SecDiagVals \cup {FZero}],
          c \in [0 .. sv_n - 1 -> SecCol0Vals] :
          \E d \in {[i \in 0 .. sv_n - 1 |-> IF i = 0 THEN c[0] ELSE r[i]]} :
             /\ MergedRow(d, c, sv_n)
             /\ \E df \in {DeflatedProblem(d, c, sv_n)} :
                   /\ sv_diag = [df.d EXCEPT ![0] = FZero]
                   /\ sv_col0 = df.col0
    /\ sv_k = 0
    /\ sv_s = [i \in 0 .. sv_n - 1 |-> None]
    /\ sv_shifts = [i \in 0 .. sv_n - 1 |-> None]
    /\ sv_mus = [i \in 0 .. sv_n - 1 |-> None]
    /\ sv_pre = [i \in 0 .. sv_n - 1 |-> None]
    /\ sv_exit = [i \in 0 .. sv_n - 1 |-> "unset"]
    /\ sv_out = None

SecIdle ==
    /\ sv_pc = "idle" /\ sv_n = 0 /\ sv_diag = <<>> /\ sv_col0 = <<>>
    /\ sv_k = 0 /\ sv_s = <<>> /\ sv_shifts = <<>> /\ sv_mus = <<>>
    /\ sv_pre = <<>> /\ sv_exit = <<>> /\ sv_out = None

\* one turn of `'kth_value: for k in 0..n`
SecSolve ==
    /\ sv_pc = "solving"
    /\ \E r \in {ComputeSingularValue(sv_k, sv_diag, sv_col0,
                                      SecularOf(sv_diag, sv_col0, sv_n), sv_n,
                                      Epsilon)} :
          /\ sv_exit' = [sv_exit EXCEPT ![sv_k] = r.exit]
          /\ sv_s' = [sv_s EXCEPT ![sv_k] = r.s]
          /\ sv_shifts' = [sv_shifts EXCEPT ![sv_k] = r.shift]
          /\ sv_mus' = [sv_mus EXCEPT ![sv_k] = r.mu]
          /\ sv_pre' = [sv_pre EXCEPT ![sv_k] = r.pre]
          /\ sv_pc' = IF r.panic THEN "panicked"
                      ELSE IF sv_k + 1 = sv_n THEN "done" ELSE "solving"
    /\ sv_k' = sv_k + 1
    /\ UNCHANGED <<sv_n, sv_diag, sv_col0, sv_out>>
    /\ UNCHANGED sv_others

\* what compute_svd_of_m does with the values once they are all solved: the
\* pass over s and col_perm, col_perm_inv, and the values written to diag
SecSort ==
    /\ sv_pc = "done"
    /\ \E actual_n \in {TrimZeros(sv_diag, sv_n)} :
       \E sorted \in {SortPass([s |-> sv_s,
                                col_perm |-> [i \in 0 .. actual_n - 1 |-> i]],
                               0, actual_n)} :
          sv_out' = [actual_n |-> actual_n, s |-> sorted.s,
                     col_perm |-> sorted.col_perm,
                     col_perm_inv |-> ColPermInv(sorted.col_perm,
                                         [i \in 0 .. actual_n - 1 |-> i], 0, actual_n),
                     d |-> DiagWritten(sorted.s, actual_n, sv_n)]
    /\ sv_pc' = "sorted"
    /\ UNCHANGED <<sv_n, sv_diag, sv_col0, sv_k, sv_s, sv_shifts, sv_mus, sv_pre,
                   sv_exit>>
    /\ UNCHANGED sv_others

SecNext == SecSolve \/ SecSort

\* the active indices of the problem in hand
SecActive == {i \in 0 .. sv_n - 1 : sv_col0[i] # FZero}

\* the indices for which the solver has written its triple
SecSolved == {k \in 0 .. sv_n - 1 : k < sv_k /\ sv_s[k] # None}
\* the right end of the interval of an active index k
SecRightEnd(k) ==
    LET later == {l \in SecActive : l > k}
    IN IF later = {} THEN FAdd(sv_diag[k], FSqrt(SumSquares(sv_col0, 0, FZero)))
       ELSE sv_diag[CHOOSE l \in later : \A j \in later : l <= j]

\* C17: for every index k solved, s[k] = shifts[k] + mus[k]; for an active k
\* the shift is diag[k] or the diagonal entry of the next active index, and
\* diag[k] for the last active index; for an inactive k (col0[k] = 0, or one
\* active index only) mus[k] = 0 and shifts[k] = s[k] = col0[0] when k = 0,
\* diag[k] otherwise.
ShiftPlusMu ==
    \A k \in SecSolved :
       /\ sv_s[k] = FAdd(sv_shifts[k], sv_mus[k])
       /\ IF k \notin SecActive \/ Cardinality(SecActive) = 1
          THEN /\ sv_mus[k] = FZero
               /\ sv_shifts[k] = sv_s[k]
               /\ sv_s[k] = IF k = 0 THEN sv_col0[0] ELSE sv_diag[k]
          ELSE /\ sv_shifts[k] \in {sv_diag[k], SecRightEnd(k)}
               /\ (\A l \in SecActive : l <= k) => sv_shifts[k] = sv_diag[k]
\* a problem solved to the end with an inactive index, an active index
\* shifted to its left end and one shifted to its right end, mu not zero
ShiftPlusMuWitness ==
    /\ sv_pc = "done"
    /\ \E k \in SecSolved : k \notin SecActive
    /\ \E k \in SecSolved \cap SecActive :
          sv_shifts[k] = sv_diag[k] /\ sv_mus[k] # FZero
    /\ \E k \in SecSolved \cap SecActive :
          /\ sv_shifts[k] = SecRightEnd(k) /\ sv_shifts[k] # sv_diag[k]
          /\ FLt(sv_mus[k], FZero)

\* the indices for which the solver went through the starting points
SecWarmed == {k \in 0 .. sv_n - 1 : k < sv_k /\ sv_pre[k] # None}
\* the end of the bracket away from the pole, before the walk
WarmBase(w) ==
    IF w.at_left THEN w.initial.right_shifted ELSE w.initial.left_shifted
\* the bracket after the walk over the eight points: the function is not
\* positive at its left end and not negative at its right end, it lies in
\* the bracket before the walk, and none of the eight points is inside it
WarmBracketTightest(w) ==
    /\ FLe(w.warm.f_left, FZero) /\ FGe(w.warm.f_right, FZero)
    /\ FLe(w.initial.left_shifted, w.warm.left_shifted)
    /\ FLt(w.warm.left_shifted, w.warm.right_shifted)
    /\ FLe(w.warm.right_shifted, w.initial.right_shifted)
    /\ \A h \in 0 .. 7 :
          /\ ~(FLt(w.warm.left_shifted, w.mu_values[h])
                /\ FLt(w.mu_values[h], w.warm.right_shifted))
          /\ w.mu_values[h] = w.warm.left_shifted => w.warm.f_left = w.f_values[h]
          /\ w.mu_values[h] = w.warm.right_shifted => w.warm.f_right = w.f_values[h]

\* C18 as stated: the eight starting points are the length of the bracket
\* times (1/2)^j for j = 1 .. 8, away from the shift, and the bracket after
\* them is the tightest with a change of sign.
WarmStartHalving ==
    \A k \in SecWarmed :
       /\ {sv_pre[k].mu_values[h] : h \in 0 .. 7}
             = {FMul(WarmBase(sv_pre[k]), FDyad(1, -j)) : j \in 1 .. 8}
       /\ WarmBracketTightest(sv_pre[k])
\* C18: the eight starting points are the length of the bracket times
\* (1/2)^(2^j) for j = 0 .. 7, that is 1/2, 1/4, 1/16, ..., 2^-128, away
\* from the shift, and the bracket after them is the tightest with a change
\* of sign among them: f(left_shifted) <= 0 <= f(right_shifted), inside the
\* bracket before.
WarmStartSquaring ==
    \A k \in SecWarmed :
       /\ \A j \in 0 .. 7 :
             sv_pre[k].mu_values[7 - j]
                = FMul(WarmBase(sv_pre[k]), FDyad(1, -(2 ^ j)))
       /\ WarmBracketTightest(sv_pre[k])
\* a problem solved to the end in which the walk moved both ends of a
\* bracket at the left end of an interval, and both at a right end
WarmStartWitness ==
    /\ sv_pc = "done"
    /\ \E k \in SecWarmed :
          /\ sv_pre[k].at_left
          /\ sv_pre[k].warm.left_shifted # sv_pre[k].initial.left_shifted
          /\ sv_pre[k].warm.right_shifted # sv_pre[k].initial.right_shifted
    /\ \E k \in SecWarmed :
          /\ ~sv_pre[k].at_left
          /\ sv_pre[k].warm.left_shifted # sv_pre[k].initial.left_shifted
          /\ sv_pre[k].warm.right_shifted # sv_pre[k].initial.right_shifted

\* the exit on an exact zero: taken exactly when the function was zero at a
\* point of the first bisection, which is then stored as mu, with s = shift
\* + mu
ExactZeroExit(k) ==
    /\ sv_exit[k] = "exact_zero" <=> sv_pre[k].zero_at # None
    /\ sv_pre[k].zero_at # None =>
          /\ sv_mus[k] = sv_pre[k].zero_at
          /\ sv_s[k] = FAdd(sv_shifts[k], sv_pre[k].zero_at)

\* C19 as stated: the first bisection computes the function at four points
\* at most, and leaves at an exact zero, which it stores.
PreBisectionAtMostFour ==
    \A k \in SecWarmed : sv_pre[k].evals <= 4 /\ ExactZeroExit(k)
\* C19: the first bisection computes the function at five points at most
\* before secant takes over, and leaves at once when the function is
\* exactly zero at a point, which it stores as the root.
PreBisectionAtMostFive ==
    \A k \in SecWarmed : sv_pre[k].evals <= 5 /\ ExactZeroExit(k)
\* a problem in which the first bisection went through five points for one
\* index and left on an exact zero, after a first point, for another
PreBisectionWitness ==
    /\ sv_pc = "done"
    /\ \E k \in SecWarmed : sv_pre[k].evals = 5 /\ sv_pre[k].zero_at = None
    /\ \E k \in SecWarmed : sv_pre[k].evals > 1 /\ sv_exit[k] = "exact_zero"


\* C8: every value written for an active index k, when there is more than
\* one active index, is at least diag[k] and at most the diagonal entry of
\* the next active index, or diag[k] + ||col0|| when k is the last active one
SingularValueInInterval ==
    \A k \in SecActive :
        (k < sv_k /\ sv_s[k] # None /\ Cardinality(SecActive) > 1) =>
            LET later == {l \in SecActive : l > k}
                next_active == CHOOSE l \in later : \A j \in later : l <= j
                right == IF later = {}
                         THEN FAdd(sv_diag[k], FSqrt(SumSquares(sv_col0, 0, FZero)))
                         ELSE sv_diag[next_active]
            IN FLe(sv_diag[k], sv_s[k]) /\ FLe(sv_s[k], right)

\* a problem solved to the end in which the three exits were all taken
SingularValueWitness ==
    /\ sv_pc = "done"
    /\ Cardinality(SecActive) > 1
    /\ \A e \in {"exact_zero", "secant", "bisection"} :
          \E k \in SecActive : sv_exit[k] = e

\* the function at the end of the first bracket of k that is not the pole:
\* at the middle of the interval, taken from diag[k] or from the shift, or at
\* the right end for the last active index
BracketFarEnd(k) ==
    LET b0 == sv_pre[k].initial
        x == IF sv_pre[k].at_left THEN b0.right_shifted ELSE b0.left_shifted
        sec == SecularOf(sv_diag, sv_col0, sv_n)
    IN {SecularEqMultiFast(x, sec, sv_shifts[k], 0, FOne),
        SecularEqMultiFast(FAdd(sv_diag[k], FAbs(x)), sec, FZero, 0, FOne)}

\* C28: the two assertions on the first bracket never fail: for every active
\* index the solver got past them, f_left <= 0 <= f_right, the end at the
\* pole carries the infinity of its side and the other end the value of the
\* function there
BracketAssertionsHold ==
    /\ sv_pc # "panicked"
    /\ \A k \in SecSolved :
          sv_pre[k] # None =>
             LET b0 == sv_pre[k].initial
             IN /\ FLe(b0.f_left, FZero) /\ FGe(b0.f_right, FZero)
                /\ IF sv_pre[k].at_left
                   THEN /\ b0.left_shifted = FZero /\ b0.f_left = FNeg(FInf)
                        /\ b0.f_right \in BracketFarEnd(k)
                   ELSE /\ b0.right_shifted = FZero /\ b0.f_right = FInf
                        /\ b0.f_left \in BracketFarEnd(k)

\* a problem solved to the end with a bracket at each side of its pole, one
\* of them of the last active index
BracketAssertionsWitness ==
    /\ sv_pc = "done"
    /\ \E k, j \in SecSolved :
          /\ sv_pre[k] # None /\ sv_pre[k].at_left /\ \A l \in SecActive : l <= k
          /\ sv_pre[j] # None /\ ~sv_pre[j].at_left

\* C26: the one pass over s is enough: after it s[0 .. actual_n) is
\* non-decreasing and holds the values solved in the order of col_perm,
\* col_perm_inv is the inverse of col_perm, and diag as written back is
\* non-increasing over [0, actual_n) with the entries deflated to zero after
\* it in their places
SinglePassSorts ==
    sv_pc = "sorted" =>
        LET m == sv_out.actual_n
        IN /\ \A i \in 0 .. m - 2 : FLe(sv_out.s[i], sv_out.s[i + 1])
           /\ \A i \in 0 .. m - 1 :
                 /\ sv_out.s[i] = sv_s[sv_out.col_perm[i]]
                 /\ sv_out.col_perm[i] \in 0 .. m - 1
                 /\ sv_out.col_perm_inv[sv_out.col_perm[i]] = i
                 /\ sv_out.col_perm[sv_out.col_perm_inv[i]] = i
           /\ \A i \in 0 .. sv_n - 2 : FGe(sv_out.d[i], sv_out.d[i + 1])
           /\ \A i \in 0 .. m - 1 : sv_out.d[i] = sv_out.s[m - 1 - i]
           /\ \A i \in m .. sv_n - 1 : sv_out.d[i] = sv_diag[i]

\* a problem in which the pass moved a value up by two places or more
SinglePassWitness ==
    /\ sv_pc = "sorted"
    /\ \E i \in 0 .. sv_out.actual_n - 1 : sv_out.col_perm_inv[i] >= i + 2

----------------------------------------------------------------------------
(* The recursion of bidiag_svd_impl: which calls are made, on which parts   *)
(* of the caller's data, and in which order they may run.  A call is named  *)
(* by its path from the root: <<>>, <<1>>, <<2>>, <<1, 1>>, ...  The parts   *)
(* are index ranges: d = <<first index, length>> of diag and subdiag,       *)
(* u and v = <<first row, first column, rows, columns>>, a = <<first byte,  *)
(* end>> of the arena.                                                      *)

\* largest n at the root
MaxJoinN == 7
\* the bytes of the arena at the root: an even and an odd number
ArenaBytes == 8
\* the Jacobi thresholds drawn
JoinThresholds == {0, 1}

\* `if k <= jacobi_fallback_threshold || rem <= jacobi_fallback_threshold`
SolvedByJacobi(k, rem, jt) == k <= jt \/ rem <= jt

\* a second arena that is the whole of what was left
ChildArenasWhole(a) == <<<<a[1], a[1] + (a[2] - a[1]) \div 2>>, a>>
\* make_raw::<u8>(stack_bytes / 2): the first half, and what is left
ChildArenas(a) ==
    <<<<a[1], a[1] + (a[2] - a[1]) \div 2>>, <<a[1] + (a[2] - a[1]) \div 2, a[2]>>>>

\* the parts handed to the two recursive calls by a call on n entries with
\* parts reg: split_at_mut(k) and split_first_mut of diag and subdiag, the
\* submatrices of u (the two shapes of u apart) and of v, the two arenas
ChildParts(reg, nn, k, rem) ==
    LET compact_u == reg.u[3] # nn + 1
        arenas == ChildArenas(reg.a)
    IN <<[d |-> <<reg.d[1], k>>,
          u |-> IF compact_u
                THEN <<reg.u[1], reg.u[2], reg.u[3], k + 1>>
                ELSE <<reg.u[1], reg.u[2] + 1, k + 1, k + 1>>,
          v |-> IF reg.v = None THEN None
                ELSE <<reg.v[1], reg.v[2] + 1, k, k>>,
          a |-> arenas[1]],
         [d |-> <<reg.d[1] + k + 1, rem>>,
          u |-> IF compact_u
                THEN <<reg.u[1], reg.u[2] + k + 1, reg.u[3], reg.u[4] - (k + 1)>>
                ELSE <<reg.u[1] + k + 1, reg.u[2] + k + 1, rem + 1, rem + 1>>,
          v |-> IF reg.v = None THEN None
                ELSE <<reg.v[1] + k + 1, reg.v[2] + k + 1, rem, rem>>,
          a |-> arenas[2]]>>

\* the locations of the parts
SliceLocs(reg) ==
    {<<w, i>> : w \in {"diag", "subdiag"}, i \in reg.d[1] .. reg.d[1] + reg.d[2] - 1}
BlockLocs(w, b) ==
    IF b = None THEN {}
    ELSE {<<w, i, j>> : i \in b[1] .. b[1] + b[3] - 1, j \in b[2] .. b[2] + b[4] - 1}
ArenaLocs(reg) == {<<"stack", b>> : b \in reg.a[1] .. reg.a[2] - 1}
AllLocs(reg) ==
    SliceLocs(reg) \cup BlockLocs("u", reg.u) \cup BlockLocs("v", reg.v)
    \cup ArenaLocs(reg)

\* join_raw returns when both closures have returned
BothReturned(calls, p) ==
    calls[Append(p, 1)].state = "returned" /\ calls[Append(p, 2)].state = "returned"
\* join_raw runs its first closure and then its second under
\* Parallelism::None, and the two side by side under Rayon: whether the
\* call p, handed to join_raw by the call that made it, may begin
CallRuns(calls, p) ==
    IF p = <<>> THEN TRUE
    ELSE IF p[Len(p)] = 1 \/ calls[SubSeq(p, 1, Len(p) - 1)].par = "Rayon" THEN TRUE
    ELSE calls[Append(SubSeq(p, 1, Len(p) - 1), 1)].state = "returned"

\* a call of bidiag_svd_impl that has just been entered, with the fill_u and
\* the parallelism it was handed (the number of threads of Rayon is not
\* kept); upd is where its updates are: whether they were handed to join_raw,
\* how far update_v and update_u have come, and which of the two closures
\* of the join_raw of each have returned
NewCall(nn, reg, fill_u, par) ==
    [n |-> nn, k |-> nn \div 2, rem |-> nn - 1 - nn \div 2, reg |-> reg,
     fill_u |-> fill_u, par |-> par,
     state |-> "entered", by |-> "none", jacobi |-> <<>>, leaf |-> None,
     upd |-> [joined |-> FALSE, v |-> "idle", u |-> "idle",
              halves |-> [v |-> {}, u |-> {}]]]

\* the QR thresholds drawn
JoinQrThresholds == {0, 2}

\* every size above the QR threshold goes to bidiag_svd_impl
RoutedPastQr(nn, jt, qt) == nn > qt
\* compute_bidiag_real_svd calls bidiag_svd_impl in its last branch only
RoutedToImpl(nn, jt, qt) == Backend(nn, jt, qt) = "dc"

\* the call of compute_bidiag_real_svd: there is a call of bidiag_svd_impl
\* at the root when the size is routed to it, and none otherwise; u is
\* filled at the root when the caller asked for it, and a u of two rows
\* stands in when not
JoinInit ==
    /\ jn_jt \in JoinThresholds
    /\ jn_n \in 0 .. MaxJoinN
    /\ \E has_u \in BOOLEAN, has_v \in BOOLEAN, bytes \in {ArenaBytes, ArenaBytes + 1},
          qt \in JoinQrThresholds, par \in {"None", "Rayon"} :
          jn_calls =
             IF RoutedToImpl(jn_n, jn_jt, qt)
             THEN (<<>> :> NewCall(jn_n,
                        [d |-> <<0, jn_n>>,
                         u |-> IF has_u THEN <<0, 0, jn_n + 1, jn_n + 1>>
                               ELSE <<0, 0, 2, jn_n + 1>>,
                         v |-> IF has_v THEN <<0, 0, jn_n, jn_n>> ELSE None,
                         a |-> <<0, bytes>>],
                        has_u, par))
             ELSE <<>>
    /\ jn_touched = [p \in DOMAIN jn_calls |-> {}]
    /\ jn_early = {}

JoinIdle ==
    /\ jn_n = 0 /\ jn_jt = 0 /\ jn_calls = <<>> /\ jn_touched = <<>>
    /\ jn_early = {}

\* the head of bidiag_svd_impl: the largest absolute value is looked for
\* and diag and subdiag are divided by it
JoinNormalize ==
    /\ \E p \in DOMAIN jn_calls :
          /\ jn_calls[p].state = "entered"
          /\ CallRuns(jn_calls, p)
          /\ jn_calls' = [jn_calls EXCEPT ![p].state = "normalized"]
          /\ jn_touched' = [jn_touched EXCEPT ![p] = @ \cup SliceLocs(jn_calls[p].reg)]
    /\ UNCHANGED <<jn_n, jn_jt, jn_early>>
    /\ UNCHANGED jn_others

\* the head of bidiag_svd_impl on a part that is all zeros: u and v are set
\* to the identity and the call returns
JoinReturnZero ==
    /\ \E p \in DOMAIN jn_calls :
          /\ jn_calls[p].state = "entered"
          /\ CallRuns(jn_calls, p)
          /\ jn_calls' = [jn_calls EXCEPT ![p].state = "returned", ![p].by = "zero"]
          /\ jn_touched' =
                [jn_touched EXCEPT ![p] =
                    @ \cup SliceLocs(jn_calls[p].reg)
                      \cup BlockLocs("u", jn_calls[p].reg.u)
                      \cup BlockLocs("v", jn_calls[p].reg.v)]
    /\ UNCHANGED <<jn_n, jn_jt, jn_early>>
    /\ UNCHANGED jn_others

\* matrix1 of order rem + 1 and matrix2 of order k + 1
LeafOrdersSwapped(k, rem) == <<rem + 1, k + 1>>
\* the orders of matrix1 and matrix2: temp_mat_zeroed(k + 1, k + 1) and
\* temp_mat_zeroed(rem + 1, rem + 1)
LeafOrders(k, rem) == <<k + 1, rem + 1>>
\* a matrix after jacobi_svd: the singular values on its diagonal, each named
\* by the call and its place, and whatever is left off the diagonal
AfterJacobi(order, call) ==
    [ij \in (0 .. order - 1) \X (0 .. order - 1) |->
        IF ij[1] = ij[2] THEN <<call, ij[1]>> ELSE "rest"]
\* `for j in 0..matrix1.ncols() { for i in 0..matrix1.nrows() { if i != j`:
\* the entries of matrix1 written after the first jacobi_svd
FirstCleanupWrites(orders) ==
    {ij \in (0 .. orders[1] - 1) \X (0 .. orders[1] - 1) : ij[1] # ij[2]}
\* `for j in 0..matrix2.ncols() { for i in 0..matrix1.nrows() { if i != j`:
\* the entries of matrix1 written after the second jacobi_svd
SecondCleanupWrites(orders) ==
    {ij \in (0 .. orders[1] - 1) \X (0 .. orders[2] - 1) : ij[1] # ij[2]}
\* `matrix1.write(i, j, E::faer_zero())` for the entries in writes
ZeroedAt(m, writes) == [ij \in DOMAIN m |-> IF ij \in writes THEN "zero" ELSE m[ij]]
\* the two matrices when the branch has copied their diagonals to diag, the
\* writes that fell outside matrix1, and diag[1 .. n-1] as copied:
\* `diag[j + 1] = matrix1.read(j, j)`, `diag[j + k + 1] = matrix2.read(j + 1, j + 1)`
LeafSolved(k, rem, orders, matrix1, matrix2) ==
    [orders |-> orders, matrix1 |-> matrix1, matrix2 |-> matrix2,
     out_of_bounds |-> {ij \in SecondCleanupWrites(orders) : ij \notin DOMAIN matrix1},
     diag |-> [i \in 1 .. k + rem |->
                 IF i <= k THEN matrix1[<<i - 1, i - 1>>]
                 ELSE matrix2[<<i - k, i - k>>]]]
LeafSolve(k, rem, orders) ==
    LeafSolved(k, rem, orders,
        ZeroedAt(ZeroedAt(AfterJacobi(orders[1], "first"), FirstCleanupWrites(orders)),
                 SecondCleanupWrites(orders)),
        AfterJacobi(orders[2], "second"))

\* the branch of the leaves: the views of u and v, then jacobi_svd on the
\* two halves and the copies after them; on a half without entries the view
\* of v panics, before jacobi_svd
JoinLeaves ==
    /\ \E p \in DOMAIN jn_calls :
          /\ jn_calls[p].state = "normalized"
          /\ SolvedByJacobi(jn_calls[p].k, jn_calls[p].rem, jn_jt)
          /\ IF LeafPanicsAtV(jn_calls[p].n, jn_calls[p].reg.v # None)
             THEN /\ jn_calls' = [jn_calls EXCEPT ![p].state = "panicked",
                                                  ![p].by = "jacobi_svd"]
                  /\ jn_touched' =
                        [jn_touched EXCEPT ![p] = @ \cup ArenaLocs(jn_calls[p].reg)]
             ELSE /\ jn_calls' =
                        [jn_calls EXCEPT
                           ![p].state = "merging", ![p].by = "jacobi_svd",
                           ![p].jacobi =
                              <<[order |-> jn_calls[p].k + 1, skip |-> "Last"],
                                [order |-> jn_calls[p].rem + 1, skip |-> "First"]>>,
                           ![p].leaf = LeafSolve(jn_calls[p].k, jn_calls[p].rem,
                                                 LeafOrders(jn_calls[p].k,
                                                            jn_calls[p].rem))]
                  /\ jn_touched' =
                        [jn_touched EXCEPT ![p] = @ \cup AllLocs(jn_calls[p].reg)]
    /\ UNCHANGED <<jn_n, jn_jt, jn_early>>
    /\ UNCHANGED jn_others

\* the branch of the recursion: the two calls are handed to join_raw, each
\* with fill_u true and the parallelism of the caller
JoinFork ==
    /\ \E p \in DOMAIN jn_calls :
          /\ jn_calls[p].state = "normalized"
          /\ ~SolvedByJacobi(jn_calls[p].k, jn_calls[p].rem, jn_jt)
          /\ \E parts \in {ChildParts(jn_calls[p].reg, jn_calls[p].n,
                                       jn_calls[p].k, jn_calls[p].rem)} :
                jn_calls' =
                   [jn_calls EXCEPT ![p].state = "joined", ![p].by = "bidiag_svd_impl"]
                   @@ (Append(p, 1) :> NewCall(jn_calls[p].k, parts[1], TRUE,
                                               jn_calls[p].par))
                   @@ (Append(p, 2) :> NewCall(jn_calls[p].rem, parts[2], TRUE,
                                               jn_calls[p].par))
          /\ jn_touched' = jn_touched @@ (Append(p, 1) :> {}) @@ (Append(p, 2) :> {})
    /\ UNCHANGED <<jn_n, jn_jt, jn_early>>
    /\ UNCHANGED jn_others

\* what follows join_raw when both calls have returned: the columns of u1
\* are rotated when u has two rows, and diag[0 .. k) moves up by one
JoinJoined ==
    /\ \E p \in DOMAIN jn_calls :
          /\ jn_calls[p].state = "joined"
          /\ BothReturned(jn_calls, p)
          /\ jn_calls' = [jn_calls EXCEPT ![p].state = "merging"]
          /\ jn_touched' =
                [jn_touched EXCEPT ![p] =
                    @ \cup SliceLocs(jn_calls[p].reg)
                      \cup BlockLocs("u", jn_calls[p].reg.u)]
          /\ jn_early' =
                IF \E c \in {1, 2} : jn_calls[Append(p, c)].state # "returned"
                THEN jn_early \cup {p} ELSE jn_early
    /\ UNCHANGED <<jn_n, jn_jt>>
    /\ UNCHANGED jn_others

\* a panic in one of the two calls goes through join_raw to the caller: the
\* first call is always run, the second is not when the first has panicked
\* before the second was begun, and a call that is running is waited for
JoinUnwind ==
    /\ \E p \in DOMAIN jn_calls :
          /\ jn_calls[p].state = "joined"
          /\ LET a == jn_calls[Append(p, 1)].state
                 b == jn_calls[Append(p, 2)].state
             IN /\ \/ a = "panicked" /\ b \in {"entered", "returned", "panicked"}
                   \/ b = "panicked" /\ a = "returned"
                /\ jn_calls' =
                      [jn_calls EXCEPT
                         ![p].state = "panicked",
                         ![Append(p, 2)].state = IF b = "entered" THEN "dropped" ELSE b]
    /\ UNCHANGED <<jn_n, jn_jt, jn_touched, jn_early>>
    /\ UNCHANGED jn_others

\* the merge of the two halves up to the updates: the row that joins them,
\* deflate, compute_svd_of_m and the saved rotations; after leaves of which
\* the second has no entries, a u of n + 1 rows has no column k between its
\* two outer ones and the call panics
JoinMergeRow ==
    /\ \E p \in DOMAIN jn_calls :
          /\ jn_calls[p].state = "merging"
          /\ jn_calls' =
                [jn_calls EXCEPT
                   ![p].state =
                      IF LeafPanicsAtU(jn_calls[p].n, jn_calls[p].reg.u[3] = 2,
                                       jn_calls[p].reg.v # None)
                      THEN "panicked" ELSE "updating"]
          /\ jn_touched' = [jn_touched EXCEPT ![p] = @ \cup AllLocs(jn_calls[p].reg)]
    /\ UNCHANGED <<jn_n, jn_jt, jn_early>>
    /\ UNCHANGED jn_others

\* `Parallelism::Rayon(_) if !_v_is_none`, in the branch of compact_u == 0
JoinTaken(compact_u, parallelism, v_is_some) ==
    compact_u = 0 /\ parallelism = "Rayon" /\ v_is_some

\* the branch taken at line 2164 by the call c: with compact_u == 1 and in
\* the last arm of the match on parallelism the two updates run in turn,
\* update_u (or the product of the compact case) once update_v has
\* returned; under Rayon with v they are handed to join_raw (line 2188).
\* update_v has nothing to do without v, the other without fill_u
UpdatesBegun(c) ==
    [joined |-> JoinTaken(IF CompactU(c.n, c.reg.u[3] = 2) THEN 1 ELSE 0, c.par,
                          c.reg.v # None),
     v |-> IF c.reg.v # None THEN "ready" ELSE "done",
     u |-> IF c.fill_u THEN "ready" ELSE "done",
     halves |-> [v |-> {}, u |-> {}]]
JoinUpdate ==
    /\ \E p \in DOMAIN jn_calls :
          /\ jn_calls[p].state = "updating"
          /\ \E upd \in {UpdatesBegun(jn_calls[p])} :
                jn_calls' = [jn_calls EXCEPT
                               ![p].state = IF upd.joined THEN "join" ELSE "turn",
                               ![p].upd = upd]
    /\ UNCHANGED <<jn_n, jn_jt, jn_touched, jn_early>>
    /\ UNCHANGED jn_others

\* an update of the call c that may take a step: either of the two under
\* join_raw, and in turn update_v, and update_u once update_v has returned
UpdateTurn(c, who) ==
    /\ c.state \in {"join", "turn"}
    /\ c.upd.joined \/ who = "v" \/ c.upd.v = "done"
\* the closure h of the join_raw of an update (line 2063 in update_v, line
\* 2115 in update_u on a u of n + 1 rows) that may run: the first and then
\* the second under Parallelism::None, either under Rayon
HalfTurn(c, who, h) ==
    /\ c.upd[who] = "ready"
    /\ ~(who = "u" /\ CompactU(c.n, c.reg.u[3] = 2))
    /\ h \notin c.upd.halves[who]
    /\ c.par = "Rayon" \/ h = 1 \/ 1 \in c.upd.halves[who]
\* what an update works on: its scratch in the arena, and v or u
UpdateLocs(reg, who) == ArenaLocs(reg) \cup BlockLocs(who, reg[who])

\* one of the two closures of the join_raw of update_v or of update_u: its
\* products, written to the scratch
JoinHalf ==
    /\ \E p \in DOMAIN jn_calls, who \in {"v", "u"}, h \in {1, 2} :
          /\ UpdateTurn(jn_calls[p], who)
          /\ HalfTurn(jn_calls[p], who, h)
          /\ jn_calls' = [jn_calls EXCEPT ![p].upd.halves[who] = @ \cup {h}]
          /\ jn_touched' =
                [jn_touched EXCEPT ![p] = @ \cup UpdateLocs(jn_calls[p].reg, who)]
    /\ UNCHANGED <<jn_n, jn_jt, jn_early>>
    /\ UNCHANGED jn_others

\* the join_raw of an update returns once both closures have, and update_v
\* makes its third product; on a u of two rows the product of u and um is
\* one matmul, after update_v
JoinProduct ==
    /\ \E p \in DOMAIN jn_calls, who \in {"v", "u"} :
          /\ UpdateTurn(jn_calls[p], who)
          /\ jn_calls[p].upd[who] = "ready"
          /\ \/ who = "u" /\ CompactU(jn_calls[p].n, jn_calls[p].reg.u[3] = 2)
             \/ jn_calls[p].upd.halves[who] = {1, 2}
          /\ jn_calls' = [jn_calls EXCEPT ![p].upd[who] = "combined"]
          /\ jn_touched' =
                [jn_touched EXCEPT ![p] = @ \cup UpdateLocs(jn_calls[p].reg, who)]
    /\ UNCHANGED <<jn_n, jn_jt, jn_early>>
    /\ UNCHANGED jn_others

\* an update copies its product to v or to u, and returns
JoinCopy ==
    /\ \E p \in DOMAIN jn_calls, who \in {"v", "u"} :
          /\ UpdateTurn(jn_calls[p], who)
          /\ jn_calls[p].upd[who] = "combined"
          /\ jn_calls' = [jn_calls EXCEPT ![p].upd[who] = "done"]
          /\ jn_touched' =
                [jn_touched EXCEPT ![p] = @ \cup UpdateLocs(jn_calls[p].reg, who)]
    /\ UNCHANGED <<jn_n, jn_jt, jn_early>>
    /\ UNCHANGED jn_others

\* join_raw returns once both updates have; in turn, the second has returned
JoinUpdated ==
    /\ \E p \in DOMAIN jn_calls :
          /\ jn_calls[p].state \in {"join", "turn"}
          /\ jn_calls[p].upd.v = "done" /\ jn_calls[p].upd.u = "done"
          /\ jn_calls' = [jn_calls EXCEPT ![p].state = "scaling"]
    /\ UNCHANGED <<jn_n, jn_jt, jn_touched, jn_early>>
    /\ UNCHANGED jn_others

\* the singular values are multiplied by max_val and the call returns
JoinScale ==
    /\ \E p \in DOMAIN jn_calls :
          /\ jn_calls[p].state = "scaling"
          /\ jn_calls' = [jn_calls EXCEPT ![p].state = "returned"]
          /\ jn_touched' = [jn_touched EXCEPT ![p] = @ \cup SliceLocs(jn_calls[p].reg)]
    /\ UNCHANGED <<jn_n, jn_jt, jn_early>>
    /\ UNCHANGED jn_others

JoinNext ==
    \/ JoinNormalize \/ JoinReturnZero \/ JoinLeaves \/ JoinFork
    \/ JoinJoined \/ JoinUnwind \/ JoinMergeRow
    \/ JoinUpdate \/ JoinHalf \/ JoinProduct \/ JoinCopy \/ JoinUpdated \/ JoinScale

\* C10: the two recursive calls are handed disjoint parts: diag[0..k] and
\* diag[k+1..n], the same of subdiag, submatrices of u and of v that share
\* no entry, the first half of the arena's bytes and the rest; whatever the
\* interleaving, no location is touched by two calls of which neither made
\* the other, each call stays within its parts, and the caller touches
\* nothing before both calls have returned.
IsPrefix(p, q) == Len(p) <= Len(q) /\ SubSeq(q, 1, Len(p)) = p
Forked == {p \in DOMAIN jn_calls : Append(p, 1) \in DOMAIN jn_calls}
ChildrenDisjoint ==
    /\ \A p \in Forked :
          LET c == jn_calls[p]
              c1 == jn_calls[Append(p, 1)]
              c2 == jn_calls[Append(p, 2)]
              half == c.reg.a[1] + (c.reg.a[2] - c.reg.a[1]) \div 2
          IN /\ c1.reg.d = <<c.reg.d[1], c.k>>
             /\ c2.reg.d = <<c.reg.d[1] + c.k + 1, c.n - (c.k + 1)>>
             /\ c1.reg.a = <<c.reg.a[1], half>>
             /\ c2.reg.a = <<half, c.reg.a[2]>>
             /\ AllLocs(c1.reg) \cap AllLocs(c2.reg) = {}
             /\ AllLocs(c1.reg) \cup AllLocs(c2.reg) \subseteq AllLocs(c.reg)
    /\ \A p \in DOMAIN jn_calls : jn_touched[p] \subseteq AllLocs(jn_calls[p].reg)
    /\ \A p \in DOMAIN jn_calls, q \in DOMAIN jn_calls :
          ~IsPrefix(p, q) /\ ~IsPrefix(q, p) => jn_touched[p] \cap jn_touched[q] = {}
    /\ jn_early = {}
\* two levels of calls are running at once, every running call having
\* touched its data, the arena of the caller having an odd number of bytes
ChildrenDisjointWitness ==
    /\ jn_calls # <<>> /\ <<1, 2>> \in DOMAIN jn_calls /\ <<2, 1>> \in DOMAIN jn_calls
    /\ \A p \in {<<1, 1>>, <<1, 2>>, <<2, 1>>, <<2, 2>>} :
          jn_calls[p].state = "normalized" /\ jn_touched[p] # {}
    /\ (jn_calls[<<>>].reg.a[2] - jn_calls[<<>>].reg.a[1]) % 2 = 1
    /\ jn_calls[<<>>].reg.v # None

\* C25: every call of bidiag_svd_impl, at the root or below, is on more
\* entries than the Jacobi threshold, thresholds of zero included; a call
\* made by another is on k or on n - 1 - k entries of it, fewer than n; and
\* the recursion comes to its end: the call at the root returns, or leaves
\* by the panic of a call on a half without entries.
EveryCallAboveThreshold ==
    \A p \in DOMAIN jn_calls :
       /\ jn_calls[p].n > jn_jt
       /\ p # <<>> =>
             LET parent == jn_calls[SubSeq(p, 1, Len(p) - 1)]
             IN /\ jn_calls[p].n < parent.n
                /\ jn_calls[p].n = IF p[Len(p)] = 1 THEN parent.n \div 2
                                   ELSE parent.n - 1 - parent.n \div 2
RootEnded ==
    jn_calls = <<>> \/ jn_calls[<<>>].state \in {"returned", "panicked"}
RecursionTerminates == []EveryCallAboveThreshold /\ <>RootEnded
\* the call at the root has returned, the threshold being zero, after two
\* calls that each went to jacobi_svd and returned
RecursionWitness ==
    /\ jn_calls # <<>> /\ jn_jt = 0
    /\ jn_calls[<<>>].state = "returned"
    /\ <<1>> \in DOMAIN jn_calls
    /\ \A p \in {<<1>>, <<2>>} :
          jn_calls[p].state = "returned" /\ jn_calls[p].by = "jacobi_svd"

\* C30: in the branch of the leaves the loop after the second jacobi_svd,
\* which runs j over the columns of matrix2 and writes to matrix1, writes
\* no entry outside matrix1, rem + 1 being at most k + 1; the diagonal of
\* matrix2 is as the second jacobi_svd left it, and diag[k+1 .. n-1] are its
\* entries 1 .. rem.
LeafCleanupInBounds ==
    \A p \in DOMAIN jn_calls :
       jn_calls[p].by = "jacobi_svd" /\ jn_calls[p].leaf # None =>
          LET c == jn_calls[p]
          IN /\ c.rem + 1 <= c.k + 1
             /\ c.leaf.out_of_bounds = {}
             /\ \A j \in 0 .. c.rem : c.leaf.matrix2[<<j, j>>] = <<"second", j>>
             /\ \A i \in c.k + 1 .. c.n - 1 : c.leaf.diag[i] = <<"second", i - c.k>>
             /\ \A i \in 1 .. c.k : c.leaf.diag[i] = <<"first", i - 1>>
\* a call took the branch of the leaves with matrix2 smaller than matrix1
\* and not of order one
LeafCleanupWitness ==
    \E p \in DOMAIN jn_calls :
       /\ jn_calls[p].by = "jacobi_svd" /\ jn_calls[p].leaf # None
       /\ jn_calls[p].rem >= 1 /\ jn_calls[p].rem < jn_calls[p].k

\* C16: a call on n entries splits at k = n div 2 with rem = n - 1 - k; when
\* k or rem is at most the Jacobi threshold the two halves go to jacobi_svd,
\* of orders k + 1 with Skip::Last and rem + 1 with Skip::First, and no
\* call is made; otherwise two calls are made, on k and on rem entries.
SplitAtHalf ==
    \A p \in DOMAIN jn_calls :
       LET c == jn_calls[p]
       IN /\ c.k = c.n \div 2 /\ c.rem = c.n - 1 - c.k /\ c.k + c.rem + 1 = c.n
          /\ c.by \in {"jacobi_svd", "bidiag_svd_impl"} =>
                IF c.k <= jn_jt \/ c.rem <= jn_jt
                THEN /\ c.by = "jacobi_svd"
                     /\ p \notin Forked
                     /\ c.jacobi = <<[order |-> c.k + 1, skip |-> "Last"],
                                      [order |-> c.rem + 1, skip |-> "First"]>>
                ELSE /\ c.by = "bidiag_svd_impl"
                     /\ c.jacobi = <<>>
                     /\ p \in Forked
                     /\ jn_calls[Append(p, 1)].n = c.k
                     /\ jn_calls[Append(p, 2)].n = c.rem
----------------------------------------------------------------------------
(* The merge of one call of bidiag_svd_impl, from the call of deflate to    *)
(* the two updates. diag and col0 are followed in their values up to the    *)
(* head of compute_svd_of_m; u, v, um and vm are followed as the list of    *)
(* what was done to each, in the order in which it was done.                *)

MaxMergeN == 4
\* the arena at the updates, in units of temp_mat_req(n, n)
MergeArena == 2

\* the entries that diag[1..] and col0 are drawn from
MergeDiagVals == {FZero, FDyad(1, -10), FHalf, FOne}
MergeCol0Vals == {FZero, FDyad(1, -13), FOne}

\* fill_u and compact_u as compute_bidiag_real_svd and the recursion pass
\* them: a full u is always filled
MergeModes ==
    {[fill_u |-> TRUE, compact_u |-> 0], [fill_u |-> TRUE, compact_u |-> 1],
     [fill_u |-> FALSE, compact_u |-> 1]}
\* the largest order drawn under every combination of fill_u, compact_u, v
\* and parallelism
MaxModesN == 3
\* the calls drawn on more entries, both with u filled and v asked for: one
\* on a u of n + 1 rows under Rayon, one on a u of two rows under
\* Parallelism::None
WideModes ==
    {[fill_u |-> TRUE, compact_u |-> 0, v_is_some |-> TRUE, parallelism |-> "Rayon"],
     [fill_u |-> TRUE, compact_u |-> 1, v_is_some |-> TRUE, parallelism |-> "None"]}

\* the first cell of the scratch that an update is handed: under join
\* update_v has mem_v, of temp_mat_req(n, n), and update_u what follows it
ScratchCellShared(who, joined) == 0
ScratchCell(who, joined) == IF joined /\ who = "u" THEN 1 ELSE 0

\* st holds u, v, the arena and the places read and written by each update,
\* a matrix being the place <<name, 0>> and a cell of the arena
\* <<"arena", cell>>. One of the two closures that the product of update_v
\* and of update_u on a u of n + 1 rows hands to join_raw: for update_v one
\* matmul to its rows of combined_v, for update_u a matmul to its rows of
\* combined_u and a rank 1 matmul that adds to them, and so reads them
UpdateHalf(st, who, cell, h) ==
    [st EXCEPT !.arena[cell] =
                   <<"half", who,
                     (IF @ # None /\ @[1] = "half" /\ @[2] = who THEN @[3] ELSE {})
                         \cup {h}>>,
               !.read[who] = @ \cup (IF who = "v" THEN {<<"v", 0>>, <<"vm", 0>>}
                                     ELSE {<<"u", 0>>, <<"um", 0>>,
                                           <<"arena", cell>>}),
               !.wrote[who] = @ \cup {<<"arena", cell>>}]
\* what follows the two closures: for update_v the matmul to row k of
\* combined_v, for update_u on a u of n + 1 rows nothing, combined_u being
\* whole; and with compact_u == 1 the one matmul of u and um
UpdateRest(st, who, cell, um, vm, compact_u) ==
    [st EXCEPT !.arena[cell] = IF who = "v" THEN <<"update_v", st.v, vm>>
                               ELSE <<"update_u", st.u, um>>,
               !.read[who] = @ \cup (IF who = "v" THEN {<<"v", 0>>, <<"vm", 0>>}
                                     ELSE IF compact_u = 1
                                          THEN {<<"u", 0>>, <<"um", 0>>}
                                     ELSE {}),
               !.wrote[who] = @ \cup (IF who = "u" /\ compact_u = 0 THEN {}
                                      ELSE {<<"arena", cell>>})]
\* the first part of update_v, of update_u and of the compact case: the
\* product, written to combined_v or combined_u at the head of the scratch
UpdateProduct(st, who, cell, um, vm, compact_u) ==
    IF who = "u" /\ compact_u = 1
    THEN UpdateRest(st, who, cell, um, vm, compact_u)
    ELSE UpdateRest(UpdateHalf(UpdateHalf(st, who, cell, 1), who, cell, 2),
                    who, cell, um, vm, compact_u)
\* the second part: `dst.write(src.read())` from the scratch
UpdateCopy(st, who, cell) ==
    [st EXCEPT !.v = IF who = "v" THEN st.arena[cell] ELSE @,
               !.u = IF who = "u" THEN st.arena[cell] ELSE @,
               !.read[who] = @ \cup {<<"arena", cell>>},
               !.wrote[who] = @ \cup {<<who, 0>>}]
\* one update from its start to its end; update_v does nothing without v,
\* update_u and the product of the compact case nothing without fill_u
UpdateRun(st, who, cell, um, vm, compact_u, on) ==
    IF on
    THEN UpdateCopy(UpdateProduct(st, who, cell, um, vm, compact_u), who, cell)
    ELSE st
\* `update_v(parallelism, stack.rb_mut()); update_u(parallelism, stack);`
UpdatesInTurn(st, um, vm, fill_u, compact_u, v_is_some) ==
    UpdateRun(UpdateRun(st, "v", ScratchCell("v", FALSE), um, vm, compact_u,
                        v_is_some),
              "u", ScratchCell("u", FALSE), um, vm, compact_u, fill_u)

MergeInit ==
    /\ mg_pc = "deflate"
    /\ mg_n \in 2 .. MaxMergeN
    /\ \E m \in MergeModes : mg_fill_u = m.fill_u /\ mg_compact_u = m.compact_u
    /\ mg_v_is_some \in BOOLEAN
    /\ ~LeafPanicsAtV(mg_n, mg_v_is_some)
    /\ ~LeafPanicsAtU(mg_n, mg_compact_u = 1, mg_v_is_some)
    /\ mg_parallelism \in {"None", "Rayon"}
    /\ mg_n > MaxModesN =>
          [fill_u |-> mg_fill_u, compact_u |-> mg_compact_u,
           v_is_some |-> mg_v_is_some, parallelism |-> mg_parallelism] \in WideModes
    /\ mg_eps = None
    /\ \E d \in [0 .. mg_n - 1 -> MergeDiagVals], c \in [0 .. mg_n - 1 -> MergeCol0Vals] :
          /\ MergedRow(d, c, mg_n)
          /\ mg_ds = [d |-> d, col0 |-> c, perm |-> [i \in 0 .. mg_n - 1 |-> 0],
                      coeffs |-> [i \in 0 .. mg_n - 1 |-> [c |-> FZero, s |-> FZero]],
                      indices |-> [i \in 0 .. mg_n - 1 |-> 0],
                      jacobi_0i |-> 0, jacobi_ij |-> 0]
    /\ mg_i = 0
    /\ mg_u = <<>> /\ mg_v = <<>> /\ mg_um = <<>> /\ mg_vm = <<>>
    /\ mg_arena = [c \in 0 .. MergeArena - 1 |-> None]
    /\ mg_join = [joined |-> FALSE, v |-> "idle", u |-> "idle",
                  halves |-> [v |-> {}, u |-> {}],
                  read |-> [v |-> {}, u |-> {}], wrote |-> [v |-> {}, u |-> {}]]

MergeIdle ==
    /\ mg_pc = "idle" /\ mg_n = 0 /\ mg_fill_u = FALSE /\ mg_compact_u = 0
    /\ mg_v_is_some = FALSE /\ mg_parallelism = "None" /\ mg_eps = None
    /\ mg_ds = None /\ mg_i = 0 /\ mg_u = <<>> /\ mg_v = <<>> /\ mg_um = <<>>
    /\ mg_vm = <<>> /\ mg_arena = <<>> /\ mg_join = None

\* the head of deflate: the two thresholds, conditions 4.1 and 4.2
MgBegin ==
    /\ mg_pc = "deflate"
    /\ \E eps \in {[strict |-> EpsilonStrict(mg_ds.d, Epsilon, NearZero),
                    coarse |-> EpsilonCoarse(mg_ds.d, mg_ds.col0, Epsilon)]} :
          /\ mg_eps' = eps
          /\ mg_ds' = DeflateBegin(mg_ds.d, mg_ds.col0, mg_n, eps.strict, eps.coarse)
    /\ mg_i' = 1
    /\ mg_pc' = "deflate43"
    /\ UNCHANGED <<mg_n, mg_fill_u, mg_compact_u, mg_v_is_some, mg_parallelism,
                   mg_u, mg_v, mg_um, mg_vm, mg_arena, mg_join>>
    /\ UNCHANGED mg_others

\* one turn of the loop of condition 4.3; deflation43 is handed u and does
\* not touch it
MgDeflate43 ==
    /\ mg_pc = "deflate43"
    /\ mg_ds' = Deflate43Turn(mg_ds, mg_i, mg_eps.coarse)
    /\ mg_i' = mg_i + 1
    /\ mg_pc' = IF mg_i + 1 >= mg_n THEN "deflate_sort" ELSE "deflate43"
    /\ UNCHANGED <<mg_n, mg_fill_u, mg_compact_u, mg_v_is_some, mg_parallelism,
                   mg_eps, mg_u, mg_v, mg_um, mg_vm, mg_arena, mg_join>>
    /\ UNCHANGED mg_others

\* the rest of deflate: the sort of diag and condition 4.4
MgDeflateSort ==
    /\ mg_pc = "deflate_sort"
    /\ mg_ds' = DeflateSorted(mg_ds, mg_n \div 2, mg_n, mg_eps.strict, NearZero)
    /\ mg_i' = 0
    /\ mg_pc' = "svd_of_m"
    /\ UNCHANGED <<mg_n, mg_fill_u, mg_compact_u, mg_v_is_some, mg_parallelism,
                   mg_eps, mg_u, mg_v, mg_um, mg_vm, mg_arena, mg_join>>
    /\ UNCHANGED mg_others

\* compute_svd_of_m on the zeroed um and vm: diag[0] = 0, the zeros cut from
\* the end of diag under the assertion, the singular values found and
\* written to diag, and the vectors written to um and vm, which are kept as
\* the list of what was done to them
MgSvdOfM ==
    /\ mg_pc = "svd_of_m"
    /\ \E sm \in {ComputeSvdOfM(FALSE, FALSE, mg_ds.d, mg_ds.col0, mg_ds.perm, mg_n,
                                Epsilon)} :
          /\ mg_ds' = [mg_ds EXCEPT !.d = sm.d]
          /\ IF sm.panic
             THEN /\ mg_pc' = "panicked"
                  /\ UNCHANGED <<mg_um, mg_vm, mg_i>>
             ELSE /\ mg_pc' = "rotate_0i"
                  /\ mg_um' = IF mg_fill_u THEN <<<<"compute_singular_vectors">>>>
                              ELSE mg_um
                  /\ mg_vm' = IF mg_v_is_some THEN <<<<"compute_singular_vectors">>>>
                              ELSE mg_vm
                  /\ mg_i' = mg_ds.jacobi_0i - 1
    /\ UNCHANGED <<mg_n, mg_fill_u, mg_compact_u, mg_v_is_some, mg_parallelism,
                   mg_eps, mg_u, mg_v, mg_arena, mg_join>>
    /\ UNCHANGED mg_others

\* `if fill_u { for (rot, &i) in jacobi_coeffs[..jacobi_0i] ... .rev()`: one
\* turn, or the way out of the loop
MgRotate0i ==
    /\ mg_pc = "rotate_0i"
    /\ IF mg_fill_u /\ mg_i >= 0
       THEN /\ mg_um' = Append(mg_um, <<"rotate", 0, mg_ds.indices[mg_i], mg_i>>)
            /\ mg_i' = mg_i - 1
            /\ mg_pc' = mg_pc
       ELSE /\ mg_um' = mg_um
            /\ mg_i' = mg_ds.jacobi_0i + mg_ds.jacobi_ij - 1
            /\ mg_pc' = "rotate_ij"
    /\ UNCHANGED <<mg_n, mg_fill_u, mg_compact_u, mg_v_is_some, mg_parallelism,
                   mg_eps, mg_ds, mg_u, mg_v, mg_vm, mg_arena, mg_join>>
    /\ UNCHANGED mg_others

\* `for (rot, &i) in jacobi_coeffs[jacobi_0i..][..jacobi_ij] ... .rev()`: one
\* turn, or the way out of the loop
MgRotateij ==
    /\ mg_pc = "rotate_ij"
    /\ IF mg_i >= mg_ds.jacobi_0i
       THEN \E actual_i \in {PermRow(mg_ds.perm, mg_ds.indices[mg_i] - 1, mg_n)},
               actual_j \in {PermRow(mg_ds.perm, mg_ds.indices[mg_i], mg_n)} :
               \E rot \in {IF actual_i < actual_j
                           THEN <<"rotate", actual_i, actual_j, mg_i>>
                           ELSE <<"rotate", actual_j, actual_i, mg_i>>} :
                  /\ mg_um' = IF mg_fill_u THEN Append(mg_um, rot) ELSE mg_um
                  /\ mg_vm' = IF mg_v_is_some THEN Append(mg_vm, rot) ELSE mg_vm
                  /\ mg_i' = mg_i - 1
                  /\ mg_pc' = mg_pc
       ELSE /\ mg_pc' = "update"
            /\ UNCHANGED <<mg_um, mg_vm, mg_i>>
    /\ UNCHANGED <<mg_n, mg_fill_u, mg_compact_u, mg_v_is_some, mg_parallelism,
                   mg_eps, mg_ds, mg_u, mg_v, mg_arena, mg_join>>
    /\ UNCHANGED mg_others

\* u, v, the arena and what the updates read and wrote, as one record
MergeState == [u |-> mg_u, v |-> mg_v, arena |-> mg_arena,
               read |-> mg_join.read, wrote |-> mg_join.wrote]

\* `update_v(parallelism, stack.rb_mut())` with compact_u == 1 and in the
\* last arm of the match on parallelism: the two updates run in turn on the
\* caller, update_u or the product of the compact case once update_v has
\* returned; update_v has nothing to do without v, the other without fill_u
MgUpdate ==
    /\ mg_pc = "update"
    /\ ~JoinTaken(mg_compact_u, mg_parallelism, mg_v_is_some)
    /\ mg_join' = [mg_join EXCEPT !.v = IF mg_v_is_some THEN "ready" ELSE "done",
                                  !.u = IF mg_fill_u THEN "ready" ELSE "done"]
    /\ mg_pc' = "turn"
    /\ UNCHANGED <<mg_n, mg_fill_u, mg_compact_u, mg_v_is_some, mg_parallelism,
                   mg_eps, mg_ds, mg_i, mg_u, mg_v, mg_um, mg_vm, mg_arena>>
    /\ UNCHANGED mg_others

\* join_raw handed the two updates
MgFork ==
    /\ mg_pc = "update"
    /\ JoinTaken(mg_compact_u, mg_parallelism, mg_v_is_some)
    /\ mg_join' = [mg_join EXCEPT !.joined = TRUE, !.v = "ready", !.u = "ready"]
    /\ mg_pc' = "join"
    /\ UNCHANGED <<mg_n, mg_fill_u, mg_compact_u, mg_v_is_some, mg_parallelism,
                   mg_eps, mg_ds, mg_i, mg_u, mg_v, mg_um, mg_vm, mg_arena>>
    /\ UNCHANGED mg_others

\* an update that may take a step: either of the two under join, and in
\* turn update_v, and update_u once update_v has returned
UpdateRuns(who) ==
    /\ mg_pc \in {"join", "turn"}
    /\ mg_join.joined \/ who = "v" \/ mg_join.v = "done"
\* the product of an update hands two closures to join_raw, which runs the
\* first and then the second under Parallelism::None and both at once
\* under Rayon
HalfRuns(who, h) ==
    /\ mg_join[who] = "ready"
    /\ ~(who = "u" /\ mg_compact_u = 1)
    /\ h \notin mg_join.halves[who]
    /\ mg_parallelism = "Rayon" \/ h = 1 \/ 1 \in mg_join.halves[who]

\* one of the two closures of the join_raw of update_v or of update_u
MgHalf ==
    /\ \E who \in {"v", "u"}, h \in {1, 2} :
          /\ UpdateRuns(who)
          /\ HalfRuns(who, h)
          /\ \E st \in {UpdateHalf(MergeState, who,
                                   ScratchCell(who, mg_join.joined), h)} :
                /\ mg_arena' = st.arena
                /\ mg_join' = [mg_join EXCEPT !.halves[who] = @ \cup {h},
                                              !.read = st.read, !.wrote = st.wrote]
    /\ UNCHANGED <<mg_pc, mg_n, mg_fill_u, mg_compact_u, mg_v_is_some,
                   mg_parallelism, mg_eps, mg_ds, mg_i, mg_u, mg_v, mg_um, mg_vm>>
    /\ UNCHANGED mg_others

\* the join_raw of an update returns once both closures have, and the
\* product is completed; with compact_u == 1 the product of u and um is
\* one matmul
MgProduct ==
    /\ \E who \in {"v", "u"} :
          /\ UpdateRuns(who)
          /\ mg_join[who] = "ready"
          /\ (who = "u" /\ mg_compact_u = 1) \/ mg_join.halves[who] = {1, 2}
          /\ \E st \in {UpdateRest(MergeState, who,
                                   ScratchCell(who, mg_join.joined),
                                   mg_um, mg_vm, mg_compact_u)} :
                /\ mg_arena' = st.arena
                /\ mg_join' = [mg_join EXCEPT ![who] = "combined",
                                              !.read = st.read, !.wrote = st.wrote]
    /\ UNCHANGED <<mg_pc, mg_n, mg_fill_u, mg_compact_u, mg_v_is_some,
                   mg_parallelism, mg_eps, mg_ds, mg_i, mg_u, mg_v, mg_um, mg_vm>>
    /\ UNCHANGED mg_others

\* an update copies its product to u or v, and returns
MgCopy ==
    /\ \E who \in {"v", "u"} :
          /\ UpdateRuns(who)
          /\ mg_join[who] = "combined"
          /\ \E st \in {UpdateCopy(MergeState, who,
                                   ScratchCell(who, mg_join.joined))} :
                /\ mg_u' = st.u
                /\ mg_v' = st.v
                /\ mg_join' = [mg_join EXCEPT ![who] = "done",
                                              !.read = st.read, !.wrote = st.wrote]
    /\ UNCHANGED <<mg_pc, mg_n, mg_fill_u, mg_compact_u, mg_v_is_some,
                   mg_parallelism, mg_eps, mg_ds, mg_i, mg_um, mg_vm, mg_arena>>
    /\ UNCHANGED mg_others

\* join_raw returns once both updates have; in turn, the second has returned
MgJoined ==
    /\ mg_pc \in {"join", "turn"}
    /\ mg_join.v = "done" /\ mg_join.u = "done"
    /\ mg_pc' = "done"
    /\ UNCHANGED <<mg_n, mg_fill_u, mg_compact_u, mg_v_is_some, mg_parallelism,
                   mg_eps, mg_ds, mg_i, mg_u, mg_v, mg_um, mg_vm, mg_arena, mg_join>>
    /\ UNCHANGED mg_others

MergeNext ==
    \/ MgBegin \/ MgDeflate43 \/ MgDeflateSort \/ MgSvdOfM
    \/ MgRotate0i \/ MgRotateij
    \/ MgUpdate \/ MgFork \/ MgHalf \/ MgProduct \/ MgCopy \/ MgJoined

\* C21 as stated: when deflate has returned, diag is non-decreasing over
\* [1, n), the entries that are zero or below near_zero included
DiagNonDecreasing ==
    mg_pc = "svd_of_m" =>
        \A i \in 1 .. mg_n - 2 : FLe(mg_ds.d[i], mg_ds.d[i + 1])

\* C21: when deflate has returned, the entries of diag[1..] that are not
\* below near_zero come first and are non-decreasing, and the entries that
\* are zero or below near_zero follow them at the end
DiagNonDecreasingThenZeros ==
    mg_pc = "svd_of_m" =>
        \E m \in 1 .. mg_n :
            /\ \A i \in 1 .. m - 1 : ~FLt(FAbs(mg_ds.d[i]), NearZero)
            /\ \A i \in 1 .. m - 2 : FLe(mg_ds.d[i], mg_ds.d[i + 1])
            /\ \A i \in m .. mg_n - 1 : FLt(FAbs(mg_ds.d[i]), NearZero)

\* deflate returned with two entries that differ before an entry put to
\* zero by condition 4.3
DiagNonDecreasingWitness ==
    /\ mg_pc = "svd_of_m"
    /\ mg_n = MaxMergeN
    /\ mg_ds.jacobi_0i = 1
    /\ FLt(mg_ds.d[1], mg_ds.d[2])
    /\ mg_ds.d[mg_n - 1] = FZero

\* C27: the assertion of compute_svd_of_m does not fail on what deflate
\* returns: every entry of diag[1..] with nothing but zeros from it to the
\* end has a zero in col0
TrimAssertionHolds ==
    /\ mg_pc # "panicked"
    /\ mg_pc = "svd_of_m" =>
          \A i \in 1 .. mg_n - 1 :
              (\A j \in i .. mg_n - 1 : mg_ds.d[j] = FZero) => mg_ds.col0[i] = FZero

\* compute_svd_of_m past its assertion, two rotations of deflation43 saved
\* for entries of col0 that were not zero when deflate was called: the two
\* entries cut from the end of diag are the zeros left at the end of the
\* singular values written to it
TrimAssertionWitness ==
    /\ mg_pc = "rotate_0i"
    /\ TrimZeros(mg_ds.d, mg_n) <= mg_n - 2
    /\ mg_ds.jacobi_0i >= 2

\* C29: the rotations saved by deflate fit the n entries of jacobi_coeffs
\* and jacobi_indices: at every point jacobi_0i + jacobi_ij <= n
JacobiListFits ==
    mg_pc # "idle" => mg_ds.jacobi_0i + mg_ds.jacobi_ij <= mg_n

\* deflate returned with rotations of both kinds saved
JacobiListWitness ==
    /\ mg_pc = "svd_of_m"
    /\ mg_ds.jacobi_0i >= 1 /\ mg_ds.jacobi_ij >= 1
    /\ mg_ds.jacobi_0i + mg_ds.jacobi_ij = mg_n - 2

\* a turn of the loop of condition 4.3 taken for an entry of diag below
\* epsilon_coarse
Deflates43 == mg_pc = "deflate43" /\ FLt(mg_ds.d[mg_i], mg_eps.coarse)

\* what such a turn leaves in diag, col0 and the list of rotations: the
\* rotation saved with the index i, col0[i] = 0, diag[i] = 0 and
\* col0[0] = diag[0] = sqrt(col0[0]^2 + col0[i]^2) of the values before
Deflation43Saved ==
    LET r == FSqrt(FAdd(FMul(mg_ds.col0[0], mg_ds.col0[0]),
                        FMul(mg_ds.col0[mg_i], mg_ds.col0[mg_i])))
    IN /\ mg_ds'.jacobi_0i = mg_ds.jacobi_0i + 1
       /\ mg_ds'.jacobi_ij = mg_ds.jacobi_ij
       /\ mg_ds'.indices[mg_ds.jacobi_0i] = mg_i
       /\ mg_ds'.coeffs[mg_ds.jacobi_0i] =
             [c |-> FDiv(mg_ds.col0[0], r), s |-> FDiv(FNeg(mg_ds.col0[mg_i]), r)]
       /\ mg_ds'.col0[mg_i] = FZero /\ mg_ds'.d[mg_i] = FZero
       /\ mg_ds'.col0[0] = r /\ mg_ds'.d[0] = r

\* C22 as stated: in condition 4.3 the rotation is saved with its index and
\* applied to u at once, inside deflate, and col0[i] = 0, diag[i] = 0,
\* col0[0] = diag[0] = hypot of the old col0[0] and col0[i] afterwards
Deflation43AppliedToU ==
    [][Deflates43 =>
          /\ Deflation43Saved
          /\ mg_u' = Append(mg_u, <<"rotate", 0, mg_i, mg_ds.jacobi_0i>>)]_vars

\* C22: in condition 4.3 the rotation is saved with its index and u is left
\* as it was, as are v, um and vm: the rotation is not applied inside
\* deflate; col0[i] = 0, diag[i] = 0, col0[0] = diag[0] = hypot of the old
\* col0[0] and col0[i] afterwards
Deflation43Deferred ==
    [][Deflates43 =>
          /\ Deflation43Saved
          /\ UNCHANGED <<mg_u, mg_v, mg_um, mg_vm>>]_vars

\* the loop of condition 4.3 left with two rotations saved, the first of
\* them for an entry of col0 that was not zero
Deflation43Witness ==
    /\ mg_pc = "deflate_sort"
    /\ mg_ds.jacobi_0i >= 2
    /\ mg_ds.coeffs[0].s # FZero
    /\ mg_u = <<>>

\* the rotation saved at idx by deflation43, as applied to rows 0 and i
Saved0i(idx) == <<"rotate", 0, mg_ds.indices[idx], idx>>

\* the rotation saved at idx by deflation44 for the rows i - 1 and i, as
\* applied to the two rows that perm sends to them, the lower row first
Savedij(idx) ==
    LET row(x) == CHOOSE q \in 0 .. mg_n - 1 : mg_ds.perm[q] = x
        a == row(mg_ds.indices[idx] - 1)
        b == row(mg_ds.indices[idx])
    IN IF a < b THEN <<"rotate", a, b, idx>> ELSE <<"rotate", b, a, idx>>

\* the two buckets of rotations, each read from its end
Bucket0i == [t \in 1 .. mg_ds.jacobi_0i |-> Saved0i(mg_ds.jacobi_0i - t)]
Bucketij ==
    [t \in 1 .. mg_ds.jacobi_ij |->
        Savedij(mg_ds.jacobi_0i + mg_ds.jacobi_ij - t)]

\* what is done to um and to vm by the time of the updates
RotatedUm ==
    IF mg_fill_u THEN <<<<"compute_singular_vectors">>>> \o Bucket0i \o Bucketij
    ELSE <<>>
RotatedVm ==
    IF mg_v_is_some THEN <<<<"compute_singular_vectors">>>> \o Bucketij ELSE <<>>

\* C23: no rotation is applied before deflate and compute_svd_of_m have
\* ended; then the rotations of deflation43 are applied to rows (0, i) of um
\* alone, last saved first, and only when u is filled, and after them those of
\* deflation44, last saved first, to the rows of um (when u is filled) and of
\* vm (when v is asked for) that perm sends to i - 1 and i; nothing else is
\* applied
DeferredRotationsInReverse ==
    /\ mg_pc \in {"deflate", "deflate43", "deflate_sort", "svd_of_m"} =>
          mg_um = <<>> /\ mg_vm = <<>>
    /\ mg_pc \in {"rotate_0i", "rotate_ij"} =>
          /\ \A x \in 0 .. mg_n - 1 : \E q \in 0 .. mg_n - 1 : mg_ds.perm[q] = x
          /\ IsPrefix(mg_um, RotatedUm) /\ IsPrefix(mg_vm, RotatedVm)
          /\ mg_pc = "rotate_0i" =>
                Len(mg_um) <= 1 + mg_ds.jacobi_0i /\ Len(mg_vm) <= 1
    /\ mg_pc \in {"update", "join", "turn", "done"} =>
          mg_um = RotatedUm /\ mg_vm = RotatedVm

\* the updates reached with u filled and v asked for, two rotations of
\* deflation44 applied, one of them to rows other than those it was saved
\* for
DeferredRotationsWitness ==
    /\ mg_pc = "update"
    /\ mg_fill_u /\ mg_v_is_some
    /\ mg_ds.jacobi_ij >= 2
    /\ \E t \in 1 .. Len(mg_vm) :
          /\ mg_vm[t][1] = "rotate"
          /\ mg_vm[t][3] # mg_ds.indices[mg_vm[t][4]]

\* the places of the arena that mem_v is made of, and those left to stack_u
MemVLocs == {<<"arena", 0>>}
StackULocs == {<<"arena", c>> : c \in 1 .. MergeArena - 1}

\* u and v after update_v and then update_u on the caller, from u and v as
\* the recursion left them and the arena not yet written
UpdatedInTurn ==
    UpdatesInTurn([u |-> <<>>, v |-> <<>>,
                   arena |-> [c \in 0 .. MergeArena - 1 |-> None],
                   read |-> [v |-> {}, u |-> {}], wrote |-> [v |-> {}, u |-> {}]],
                  mg_um, mg_vm, mg_fill_u, mg_compact_u, mg_v_is_some)

\* C24: the two updates are handed to join exactly when u is full,
\* parallelism is Rayon and v is asked for; under join update_v writes v and
\* scratch of mem_v alone and reads v, vm and that scratch, update_u writes
\* u and scratch past mem_v alone and reads u, um and that scratch, so that
\* neither writes what the other reads or writes; and in every case u and v
\* end as update_v followed by update_u on the caller leaves them
UpdatesJoinSafely ==
    /\ mg_pc \in {"join", "turn", "done"} =>
          (mg_join.joined <=>
              mg_compact_u = 0 /\ mg_parallelism = "Rayon" /\ mg_v_is_some)
    /\ (mg_pc \in {"join", "done"} /\ mg_join.joined) =>
          /\ mg_join.wrote.v \subseteq {<<"v", 0>>} \cup MemVLocs
          /\ mg_join.wrote.u \subseteq {<<"u", 0>>} \cup StackULocs
          /\ mg_join.read.v \subseteq {<<"v", 0>>, <<"vm", 0>>} \cup MemVLocs
          /\ mg_join.read.u \subseteq {<<"u", 0>>, <<"um", 0>>} \cup StackULocs
          /\ mg_join.wrote.v \cap (mg_join.wrote.u \cup mg_join.read.u) = {}
          /\ mg_join.wrote.u \cap (mg_join.wrote.v \cup mg_join.read.v) = {}
    /\ mg_pc = "done" => mg_u = UpdatedInTurn.u /\ mg_v = UpdatedInTurn.v

\* the two updates under join, each with its product in the scratch and
\* neither yet copied
UpdatesJoinWitness ==
    /\ mg_pc = "join"
    /\ mg_join.v = "combined" /\ mg_join.u = "combined"
    /\ mg_arena[0] # None /\ mg_arena[1] # None

----------------------------------------------------------------------------
\* the sizing helper and a solve with an arena of the size it returns
ReqAlone == ReqInit /\ EntryIdle /\ SecIdle /\ JoinIdle /\ MergeIdle
SpecReq == ReqAlone /\ [][ReqNext]_vars
\* a call of compute_bidiag_real_svd
EntryAlone == EntryInit /\ ReqIdle /\ SecIdle /\ JoinIdle /\ MergeIdle
SpecEntry == EntryAlone /\ [][EntryNext]_vars
\* compute_singular_values on a deflated problem
SecAlone == SecInit /\ ReqIdle /\ EntryIdle /\ JoinIdle /\ MergeIdle
SpecSecular == SecAlone /\ [][SecNext]_vars
\* the calls of bidiag_svd_impl under one call at the root
JoinAlone == JoinInit /\ ReqIdle /\ EntryIdle /\ SecIdle /\ MergeIdle
SpecJoin == JoinAlone /\ [][JoinNext]_vars
\* the same, every call that can take a step taking one in the end
SpecJoinFair == JoinAlone /\ [][JoinNext]_vars /\ WF_vars(JoinNext)
\* the merge of one call of bidiag_svd_impl
MergeAlone == MergeInit /\ ReqIdle /\ EntryIdle /\ SecIdle /\ JoinIdle
SpecMerge == MergeAlone /\ [][MergeNext]_vars

====
